---- MODULE Spec2Model ----
(***************************************************************************)
(* TopoConvert: state-machine model of the conversion routines and of the  *)
(* command layer that calls them.                                          *)
(*                                                                         *)
(* Each routine has one record-valued variable holding the state of one    *)
(* run of it (call arguments, position in the code, files on disk, the     *)
(* exception in flight) and one specification (SpecCsvKml, ...) that       *)
(* explores the runs of that routine; the records of the other routines    *)
(* stay at Idle.                                                           *)
(*                                                                         *)
(* Numbers are fixed-point with four decimals (value * 10^4), except the   *)
(* latitudes and longitudes of CSV rows, which are whole degrees.          *)
(***************************************************************************)
EXTENDS Integers, Sequences, FiniteSets, TLC

VARIABLES csvkml, contours, mesh, points, refactored,
          mergedxf, mergekml, heatmap, monitor, call

vars == <<csvkml, contours, mesh, points, refactored,
          mergedxf, mergekml, heatmap, monitor, call>>

Idle == [pc |-> "idle"]

(* The single-file conversions, and the routines modelled after them. *)
conversions == <<csvkml, contours, mesh, points, refactored>>

others == <<mergedxf, mergekml, heatmap, monitor, call>>

OthersIdle ==
    /\ mergedxf = Idle
    /\ mergekml = Idle
    /\ heatmap = Idle
    /\ monitor = Idle
    /\ call = Idle

ConversionsIdle ==
    /\ csvkml = Idle
    /\ contours = Idle
    /\ mesh = Idle
    /\ points = Idle
    /\ refactored = Idle

(***************************************************************************)
(* Bounds of the explored inputs.                                          *)
(***************************************************************************)
MaxRows == 3

MaxKmlPoints == 3

(***************************************************************************)
(* Fixed-point arithmetic.  A unit factor is the exact fraction its        *)
(* decimal literal denotes; Scale multiplies a fixed-point value by it     *)
(* (rounding down) without leaving the 32-bit range.                       *)
(***************************************************************************)
FT_TO_M == [num |-> 3048, den |-> 10000]

M_TO_FT == [num |-> 328084, den |-> 100000]

RECURSIVE GCD(_, _)
GCD(a, b) == IF b = 0 THEN a ELSE GCD(b, a % b)

Scale(v, factor) ==
    LET g == GCD(factor.num, factor.den)
        n == factor.num \div g
        d == factor.den \div g
    IN  (v \div d) * n + ((v % d) * n) \div d

(***************************************************************************)
(* Small helpers on sequences.                                             *)
(***************************************************************************)
Rep(c, n) == [i \in 1..n |-> c]

SeqsUpTo(S, n) == UNION {[1..k -> S] : k \in 0..n}

(***************************************************************************)
(* Exceptions.  An exception is named by its class.  The TopoConvertError  *)
(* family is what the command layer's first handler catches.               *)
(***************************************************************************)
NoError == "none"

TopoConvertErrors == {"FileFormatError", "ProcessingError", "ContourGenerationError"}

IsTopoConvertError(kind) == kind \in TopoConvertErrors

(***************************************************************************)
(* int(text, 16) of Python, as an acceptance test on a sequence of         *)
(* characters: surrounding whitespace is stripped, one sign is allowed,    *)
(* then an optional 0x / 0X prefix (which may be followed by one           *)
(* underscore), then hex digits in groups separated by single underscores. *)
(***************************************************************************)
HexDigits == {"0", "1", "2", "3", "4", "5", "6", "7", "8", "9",
              "a", "b", "c", "d", "e", "f", "A", "B", "C", "D", "E", "F"}

Whitespace == {" ", "\t"}

RECURSIVE LStrip(_)
LStrip(s) == IF s # <<>> /\ s[1] \in Whitespace THEN LStrip(Tail(s)) ELSE s

RECURSIVE RStrip(_)
RStrip(s) ==
    IF s # <<>> /\ s[Len(s)] \in Whitespace
    THEN RStrip(SubSeq(s, 1, Len(s) - 1)) ELSE s

Strip(s) == RStrip(LStrip(s))

DigitGroups(s) ==
    /\ s # <<>>
    /\ \A i \in 1..Len(s) : s[i] \in HexDigits \cup {"_"}
    /\ s[1] # "_"
    /\ s[Len(s)] # "_"
    /\ \A i \in 1..(Len(s) - 1) : ~(s[i] = "_" /\ s[i + 1] = "_")

IntBase16Parses(text) ==
    LET t == Strip(text)
        u == IF t # <<>> /\ t[1] \in {"+", "-"} THEN Tail(t) ELSE t
        hasPrefix == Len(u) >= 2 /\ u[1] = "0" /\ u[2] \in {"x", "X"}
        v == IF hasPrefix THEN SubSeq(u, 3, Len(u)) ELSE u
        w == IF hasPrefix /\ v # <<>> /\ v[1] = "_" THEN Tail(v) ELSE v
    IN  DigitGroups(w)

(***************************************************************************)
(* Python's formatting of a number with a fixed number of decimals, on the *)
(* fixed-point value: round v to a multiple of step, ties to even.         *)
(***************************************************************************)
RoundTo(v, step) ==
    LET q == v \div step
        r == v % step
    IN  IF 2 * r < step THEN q * step
        ELSE IF 2 * r > step THEN (q + 1) * step
        ELSE IF q % 2 = 0 THEN q * step ELSE (q + 1) * step

(***************************************************************************)
(*                     core/csv_kml.py : CSV -> KML                        *)
(***************************************************************************)

(* Arguments of convert_csv_to_kml that its code inspects. *)
CkUnits == {"meters", "feet", "yards"}

CkStyles == {"circle", "hexagon"}

CkColors ==
    { Rep("f", 8), Rep("f", 7), Rep("f", 9), Rep("g", 8), <<>>,
      <<"f", "f", "0", "0", "F", "F", "0", "0">>,
      <<"0", "x">> \o Rep("f", 6),
      <<"+">> \o Rep("f", 7),
      <<" ">> \o Rep("f", 7),
      <<"f", "f", "_">> \o Rep("f", 5),
      <<"_">> \o Rep("f", 7),
      <<"f", "f", "_", "_">> \o Rep("f", 4),
      <<"0", "x">> \o Rep("f", 5) }

CkScales == {0, 8000}

CkArgs ==
    [exists : BOOLEAN, elevation_units : CkUnits, point_style : CkStyles,
     point_color : CkColors, point_scale : CkScales, add_labels : BOOLEAN]

(* What the command line lets through: click.Path(exists=True) and the    *)
(* two click.Choice options.                                               *)
CkCliArgs ==
    {a \in CkArgs : /\ a.exists
                    /\ a.elevation_units \in {"meters", "feet"}
                    /\ a.point_style = "circle"}

(* The tables pandas.read_csv can hand back.  Columns are named by role   *)
(* (x, y, z); a y column holding any non-numeric text has dtype object    *)
(* and then every cell of it is a string.                                  *)
CkRowVals ==
    { [lat |-> 45, lon |-> -100, elev |-> 255000],
      [lat |-> 999, lon |-> -100, elev |-> 100000],
      [lat |-> 45, lon |-> 200, elev |-> 0],
      [lat |-> -90, lon |-> 180, elev |-> 100000] }

NoTable == [parsed |-> FALSE, columns |-> {}, y_dtype |-> "float64", rows |-> <<>>]

CkTables ==
    {NoTable} \cup
    {t \in [parsed : {TRUE}, columns : SUBSET {"x", "y", "z"},
            y_dtype : {"float64", "object"}, rows : SeqsUpTo(CkRowVals, MaxRows)] :
        /\ ({"x", "y"} \subseteq t.columns \/ t.rows = <<>>)
        /\ (t.y_dtype = "object" => t.rows # <<>>)}

CkInitState(caller, args) ==
    [pc |-> "call", caller |-> caller, args |-> args, df |-> NoTable,
     csv_read |-> FALSE, has_elevation |-> FALSE, idx |-> 0, valid_points |-> 0,
     warnings |-> 0, file_exists |-> FALSE, file |-> <<>>,
     raised_in_process |-> NoError, error |-> NoError, progress |-> <<>>,
     summary |-> <<>>, exit_code |-> -1, stderr |-> "none"]

(* progress_callback(message, percent): the api caller supplies a         *)
(* callback, the command passes progress_callback=None.                    *)
CkProgress(st, percents) ==
    IF st.caller = "api" THEN st.progress \o percents ELSE st.progress

(* convert_csv_to_kml, lines 75-91: whatever _process_csv_to_kml raises   *)
(* is caught by "except Exception" and replaced by a ProcessingError.      *)
CkWrap(kind) == "ProcessingError"

CkRaiseInProcess(st, kind) ==
    [st EXCEPT !.pc = "raised", !.raised_in_process = kind, !.error = CkWrap(kind)]

(* The parameter checks of convert_csv_to_kml, in the order of the code;  *)
(* the result is the exception raised, or NoError.                         *)
CkValidationError(args) ==
    IF ~args.exists THEN "FileNotFoundError"
    ELSE IF args.elevation_units \notin {"meters", "feet"} THEN "ValueError"
    ELSE IF args.point_style \notin {"circle", "pin", "square"} THEN "ValueError"
    ELSE IF Len(args.point_color) # 8 THEN "ValueError"
    ELSE IF ~IntBase16Parses(args.point_color) THEN "ValueError"
    ELSE IF args.point_scale <= 0 THEN "ValueError"
    ELSE NoError

CkValidate ==
    /\ csvkml.pc = "call"
    /\ LET e == CkValidationError(csvkml.args) IN
         csvkml' = IF e # NoError
                   THEN [csvkml EXCEPT !.pc = "raised", !.error = e]
                   ELSE [csvkml EXCEPT !.pc = "process"]
    /\ UNCHANGED <<contours, mesh, points, refactored, others>>

(* _process_csv_to_kml, lines 160-201: read the table, check the columns. *)
CkReadCsv ==
    /\ csvkml.pc = "process"
    /\ \E t \in CkTables :
         LET st0 == [csvkml EXCEPT !.progress = CkProgress(csvkml, <<0>>),
                                   !.csv_read = TRUE]
         IN  csvkml' =
               IF ~t.parsed THEN CkRaiseInProcess(st0, "FileFormatError")
               ELSE IF ~({"x", "y"} \subseteq t.columns)
                    THEN CkRaiseInProcess([st0 EXCEPT !.df = t], "FileFormatError")
               ELSE IF Len(t.rows) = 0
                    THEN CkRaiseInProcess(
                           [st0 EXCEPT !.df = t, !.has_elevation = "z" \in t.columns],
                           "ProcessingError")
               ELSE [st0 EXCEPT !.pc = "open", !.df = t,
                                !.has_elevation = "z" \in t.columns,
                                !.progress = CkProgress(st0, <<20, 40>>)]
    /\ UNCHANGED <<contours, mesh, points, refactored, others>>

(* lines 204-208: open(output_file, 'w') and the header.  Either call     *)
(* can fail with OSError, which "except Exception" at line 239 turns into *)
(* ProcessingError.                                                        *)
CkOpenOutput ==
    /\ csvkml.pc = "open"
    /\ \E outcome \in {"ok", "open_fails", "write_fails"} :
         csvkml' =
           CASE outcome = "open_fails" ->
                  CkRaiseInProcess(csvkml, "ProcessingError")
             [] outcome = "write_fails" ->
                  CkRaiseInProcess([csvkml EXCEPT !.file_exists = TRUE, !.file = <<>>],
                                   "ProcessingError")
             [] OTHER ->
                  [csvkml EXCEPT !.pc = "rows", !.file_exists = TRUE,
                                 !.file = <<[kind |-> "header"]>>,
                                 !.idx = 0, !.valid_points = 0]
    /\ UNCHANGED <<contours, mesh, points, refactored, others>>

CkInRangeStrict(row) == (-90 < row.lat /\ row.lat < 90) /\ (-180 < row.lon /\ row.lon < 180)

CkInRange(row) == (-90 <= row.lat /\ row.lat <= 90) /\ (-180 <= row.lon /\ row.lon <= 180)

(* _create_placemark, lines 128-141. *)
CkCreatePlacemark(lat, lon, elev, point_num, add_labels, elev_units) ==
    [kind |-> "placemark",
     name |-> IF add_labels THEN <<"elev", RoundTo(elev, 1000), elev_units>>
              ELSE <<"Point", point_num, "">>,
     description |-> <<RoundTo(elev, 100), elev_units>>,
     coordinates |-> <<lon, lat, elev>>]

Max2(a, b) == IF a >= b THEN a ELSE b

(* lines 216-234: one iteration of the loop over df.iterrows(). *)
CkWriteRow ==
    /\ csvkml.pc = "rows"
    /\ csvkml.idx < Len(csvkml.df.rows)
    /\ LET row == csvkml.df.rows[csvkml.idx + 1]
           elev == IF csvkml.has_elevation THEN row.elev ELSE 0
           total_points == Len(csvkml.df.rows)
           points_per_update == Max2(1, total_points \div 50)
           n == csvkml.idx + 1
           placemark == CkCreatePlacemark(row.lat, row.lon, elev, n,
                                          csvkml.args.add_labels,
                                          csvkml.args.elevation_units)
           pct == IF n % points_per_update = 0
                  THEN <<40 + (n * 50) \div total_points>> ELSE <<>>
       IN
         IF csvkml.df.y_dtype = "object"
         THEN csvkml' = CkRaiseInProcess(csvkml, "ProcessingError")
         ELSE IF ~CkInRange(row)
         THEN csvkml' = [csvkml EXCEPT !.idx = n, !.warnings = @ + 1]
         ELSE \E write_ok \in BOOLEAN :
                csvkml' =
                  IF write_ok
                  THEN [csvkml EXCEPT !.idx = n, !.valid_points = @ + 1,
                                      !.file = Append(@, placemark),
                                      !.progress = CkProgress(csvkml, pct)]
                  ELSE CkRaiseInProcess(csvkml, "ProcessingError")
    /\ UNCHANGED <<contours, mesh, points, refactored, others>>

(* lines 236-240: the footer, after the last row. *)
CkWriteFooter ==
    /\ csvkml.pc = "rows"
    /\ csvkml.idx = Len(csvkml.df.rows)
    /\ \E write_ok \in BOOLEAN :
         csvkml' =
           IF write_ok
           THEN [csvkml EXCEPT !.pc = "summary", !.file = Append(@, [kind |-> "footer"])]
           ELSE CkRaiseInProcess(csvkml, "ProcessingError")
    /\ UNCHANGED <<contours, mesh, points, refactored, others>>

RECURSIVE SeqMin(_)
SeqMin(s) ==
    IF Len(s) = 1 THEN s[1]
    ELSE LET m == SeqMin(Tail(s)) IN IF s[1] <= m THEN s[1] ELSE m

RECURSIVE SeqMax(_)
SeqMax(s) ==
    IF Len(s) = 1 THEN s[1]
    ELSE LET m == SeqMax(Tail(s)) IN IF s[1] >= m THEN s[1] ELSE m

Column(rows, f) == [i \in 1..Len(rows) |-> rows[i][f]]

(* lines 242-267: the summary and the last two progress calls. *)
CkSummary ==
    /\ csvkml.pc = "summary"
    /\ LET rows == csvkml.df.rows IN
         csvkml' =
           [csvkml EXCEPT
              !.pc = "returned",
              !.progress = CkProgress(csvkml, <<95, 100>>),
              !.summary = <<[written |-> csvkml.valid_points,
                             elevation_units |-> csvkml.args.elevation_units,
                             lat_range |-> <<SeqMin(Column(rows, "lat")),
                                             SeqMax(Column(rows, "lat"))>>,
                             lon_range |-> <<SeqMin(Column(rows, "lon")),
                                             SeqMax(Column(rows, "lon"))>>]>>]
    /\ UNCHANGED <<contours, mesh, points, refactored, others>>

(* commands/csv_to_kml.py, lines 40-62: the two handlers of the command.  *)
CmdRender(kind) ==
    IF kind = NoError THEN "none"
    ELSE IF IsTopoConvertError(kind) THEN "Error"
    ELSE "Unexpected error"

CmdCsvToKml ==
    /\ csvkml.pc \in {"returned", "raised"}
    /\ csvkml.caller = "cli"
    /\ csvkml' = [csvkml EXCEPT !.pc = "exited",
                                !.stderr = CmdRender(csvkml.error),
                                !.exit_code = IF csvkml.error = NoError THEN 0 ELSE 1]
    /\ UNCHANGED <<contours, mesh, points, refactored, others>>

InitCsvKml ==
    /\ \/ \E a \in CkArgs : csvkml = CkInitState("api", a)
       \/ \E a \in CkCliArgs : csvkml = CkInitState("cli", a)
    /\ contours = Idle
    /\ mesh = Idle
    /\ points = Idle
    /\ refactored = Idle
    /\ OthersIdle

NextCsvKml ==
    \/ CkValidate
    \/ CkReadCsv
    \/ CkOpenOutput
    \/ CkWriteRow
    \/ CkWriteFooter
    \/ CkSummary
    \/ CmdCsvToKml

SpecCsvKml == InitCsvKml /\ [][NextCsvKml]_vars

(***************************************************************************)
(*                 Properties of the CSV -> KML conversion                 *)
(***************************************************************************)
IsPlacemark(chunk) == chunk.kind = "placemark"

CkPlacemarks == SelectSeq(csvkml.file, IsPlacemark)

RowInBounds(row) == row.lat >= -90 /\ row.lat <= 90 /\ row.lon >= -180 /\ row.lon <= 180

(* The rows of the table that the loop has passed and that lie in range. *)
CkPassedInRange ==
    SelectSeq(SubSeq(csvkml.df.rows, 1, csvkml.idx), RowInBounds)

CkRunning == csvkml.pc # "idle"

CkFinished == csvkml.pc \in {"returned", "raised", "exited"}

CkSucceeded == CkFinished /\ csvkml.error = NoError

CkFailed == CkFinished /\ csvkml.error # NoError

ElevationInMeters(elev, elevation_units) ==
    IF elevation_units = "feet" THEN Scale(elev, FT_TO_M) ELSE elev

(* C1: every placemark's coordinate tuple carries the elevation in        *)
(* meters: the CSV elevation times 0.3048 when elevation_units is 'feet', *)
(* the CSV elevation unchanged when it is 'meters'.                        *)
C1_ElevationWrittenInMeters ==
    CkRunning /\ csvkml.file_exists =>
        /\ Len(CkPlacemarks) <= Len(CkPassedInRange)
        /\ \A j \in 1..Len(CkPlacemarks) :
             CkPlacemarks[j].coordinates[3] =
                ElevationInMeters(IF csvkml.has_elevation
                                  THEN CkPassedInRange[j].elev ELSE 0,
                                  csvkml.args.elevation_units)

(* C2: a run that fails leaves no truncated output: if the output file    *)
(* holds anything after a failed run (the header was written), it is a    *)
(* whole document ending in the closing footer.                            *)
C2_NoPartialOutputOnFailure ==
    (CkFailed /\ csvkml.file_exists /\ csvkml.file # <<>>)
        => csvkml.file[Len(csvkml.file)].kind = "footer"

(* C3: on a parseable table without the x or the y column the caller of   *)
(* convert_csv_to_kml sees FileFormatError.                                *)
C3_MissingColumnIsFileFormatError ==
    (CkFinished /\ csvkml.df.parsed /\ ~({"x", "y"} \subseteq csvkml.df.columns))
        => csvkml.error = "FileFormatError"

(* C5: a parameter-validation failure (ValueError) of the core routine is *)
(* not handled by the command's generic handler: it is never rendered as  *)
(* "Unexpected error" with the command's "failed" prefix.                  *)
C5_ValidationNotCaughtByGenericHandler ==
    (csvkml.pc = "exited" /\ csvkml.error = "ValueError")
        => csvkml.stderr # "Unexpected error"

IsHexColor(color) ==
    Len(color) = 8 /\ \A i \in 1..Len(color) : color[i] \in HexDigits

(* C6: a point_color that is not exactly 8 hex digits is rejected with    *)
(* ValueError before the CSV is read and before the output is created.     *)
C6_BadColorRejectedBeforeIO ==
    (csvkml.pc \notin {"idle", "call"} /\ csvkml.args.exists
       /\ ~IsHexColor(csvkml.args.point_color))
        => /\ csvkml.error = "ValueError"
           /\ ~csvkml.csv_read
           /\ ~csvkml.file_exists

(* C7: out-of-range rows are skipped without aborting: the placemarks     *)
(* written are exactly the in-range rows passed so far, in input order,   *)
(* the written count equals their number, and a run that returns has      *)
(* passed every row and reports that count.                                *)
C7_OutOfRangeRowsSkipped ==
    (csvkml.pc \in {"rows", "summary", "returned"} \/ (csvkml.pc = "exited" /\ CkSucceeded))
        => /\ csvkml.valid_points = Len(CkPassedInRange)
           /\ Len(CkPlacemarks) = Len(CkPassedInRange)
           /\ \A j \in 1..Len(CkPlacemarks) :
                /\ CkPlacemarks[j].coordinates[1] = CkPassedInRange[j].lon
                /\ CkPlacemarks[j].coordinates[2] = CkPassedInRange[j].lat
           /\ (csvkml.pc \in {"summary", "returned", "exited"}
                 => csvkml.idx = Len(csvkml.df.rows))
           /\ (csvkml.pc \in {"returned", "exited"}
                 => csvkml.summary[1].written = Len(CkPassedInRange))

(* A run that returned after skipping a row lying between two written rows. *)
C7_Witness ==
    /\ csvkml.pc = "returned"
    /\ Len(csvkml.df.rows) = 3
    /\ RowInBounds(csvkml.df.rows[1])
    /\ ~RowInBounds(csvkml.df.rows[2])
    /\ RowInBounds(csvkml.df.rows[3])
    /\ csvkml.df.rows[1] # csvkml.df.rows[3]
    /\ csvkml.valid_points = 2
    /\ csvkml.warnings = 1

(***************************************************************************)
(*                    KML input shared by the KML routines                 *)
(***************************************************************************)

(* The geo-points of the explored KML files: longitude and latitude in    *)
(* 10^-4 degrees, elevation in 10^-4 of the declared unit.                 *)
KmlPointVals ==
    { [lon |-> -990000, lat |-> 450000, elev |-> 0],
      [lon |-> -989990, lat |-> 450000, elev |-> 50000],
      [lon |-> -989990, lat |-> 450010, elev |-> 100000],
      [lon |-> -989981, lat |-> 450000, elev |-> 123460] }

IsInjective(s) == \A i, j \in 1..Len(s) : i # j => s[i] # s[j]

NotXml == [wellformed |-> FALSE, points |-> <<>>]

(* What ET.parse and the Placemark/Point/coordinates search give for the  *)
(* input file: a parse error, or the list of coordinate triples.           *)
KmlFiles ==
    {NotXml} \cup
    {[wellformed |-> TRUE, points |-> pts] :
        pts \in {q \in SeqsUpTo(KmlPointVals, MaxKmlPoints) : IsInjective(q)}}

(* Transformer.transform(lon, lat): the projected position in meters      *)
(* (four decimals).  The explored points lie within a few hundred meters  *)
(* of each other, where the projection is linear to the precision kept:   *)
(* 10^-4 degree is 8 m of easting and 11 m of northing.                    *)
Transform(lon, lat) == <<(lon + 990000) * 80000, (lat - 450000) * 110000>>

(* Signed area test and in-circle test of the triangulation library, on   *)
(* the projected positions in units of 10 m (both tests are unchanged by  *)
(* translation and by scaling all coordinates with one positive factor).  *)
Dam(p) == LET xy == Transform(p.lon, p.lat) IN <<xy[1] \div 100000, xy[2] \div 100000>>

Orient(a, b, c) ==
    (Dam(b)[1] - Dam(a)[1]) * (Dam(c)[2] - Dam(a)[2])
      - (Dam(b)[2] - Dam(a)[2]) * (Dam(c)[1] - Dam(a)[1])

Det3(r1, r2, r3) ==
      r1[1] * (r2[2] * r3[3] - r2[3] * r3[2])
    - r1[2] * (r2[1] * r3[3] - r2[3] * r3[1])
    + r1[3] * (r2[1] * r3[2] - r2[2] * r3[1])

InCircleRow(p, d) ==
    LET dx == Dam(p)[1] - Dam(d)[1]
        dy == Dam(p)[2] - Dam(d)[2]
    IN  <<dx, dy, dx * dx + dy * dy>>

(* d lies strictly inside the circle through a, b, c. *)
InCircle(a, b, c, d) ==
    LET det == Det3(InCircleRow(a, d), InCircleRow(b, d), InCircleRow(c, d))
    IN  IF Orient(a, b, c) > 0 THEN det > 0 ELSE det < 0

(* Qhull cannot build an initial simplex: fewer than three points, or all *)
(* points on one line.                                                     *)
Degenerate(pts) ==
    \A i, j, k \in 1..Len(pts) : Orient(pts[i], pts[j], pts[k]) = 0

(* scipy.spatial.Delaunay(points).simplices: the triangles whose          *)
(* circumcircle holds no other point, as index triples.                    *)
Delaunay(pts) ==
    {t \in (1..Len(pts)) \X (1..Len(pts)) \X (1..Len(pts)) :
        /\ t[1] < t[2] /\ t[2] < t[3]
        /\ Orient(pts[t[1]], pts[t[2]], pts[t[3]]) # 0
        /\ \A m \in 1..Len(pts) :
             m \notin {t[1], t[2], t[3]}
               => ~InCircle(pts[t[1]], pts[t[2]], pts[t[3]], pts[m])}

(* Python binds the keyword arguments of a call before the body runs; a   *)
(* keyword the signature does not name raises TypeError.                   *)
Binds(kwargs, params) == kwargs \subseteq params

(* Lines 192-208 of contours.py and 256-272 of mesh.py: project, convert  *)
(* meters to feet, convert the elevation to feet when declared in meters. *)
ProjectToFeet(p, elevation_units) ==
    LET xy == Transform(p.lon, p.lat) IN
    [x |-> Scale(xy[1], M_TO_FT), y |-> Scale(xy[2], M_TO_FT),
     z |-> IF elevation_units = "meters" THEN Scale(p.elev, M_TO_FT) ELSE p.elev]

ProjectAll(pts, elevation_units) ==
    [i \in 1..Len(pts) |-> ProjectToFeet(pts[i], elevation_units)]

Translate(pts_ft, ref) ==
    [i \in 1..Len(pts_ft) |->
        [x |-> pts_ft[i].x - ref.x, y |-> pts_ft[i].y - ref.y, z |-> pts_ft[i].z - ref.z]]

CenterOfBoundsCorner(pts_ft) ==
    [x |-> SeqMin(Column(pts_ft, "x")),
     y |-> SeqMin(Column(pts_ft, "y")),
     z |-> SeqMin(Column(pts_ft, "z"))]

(* (min + max) / 2.0 on the values the arithmetic can represent: the sum  *)
(* is rounded to a representable value (ties to even), the halving is     *)
(* exact.                                                                  *)
Midpoint(lo, hi) == RoundTo(lo + hi, 2) \div 2

(* The center of the x/y bounds and the lowest elevation. *)
CenterOfBounds(pts_ft) ==
    [x |-> Midpoint(SeqMin(Column(pts_ft, "x")), SeqMax(Column(pts_ft, "x"))),
     y |-> Midpoint(SeqMin(Column(pts_ft, "y")), SeqMax(Column(pts_ft, "y"))),
     z |-> SeqMin(Column(pts_ft, "z"))]

Origin == [x |-> 0, y |-> 0, z |-> 0]

(***************************************************************************)
(*               core/contours.py : KML points -> contour DXF              *)
(***************************************************************************)
CtArgs ==
    [exists : BOOLEAN, elevation_units : {"meters", "feet", "yards"},
     contour_interval : {0, 10000}, grid_resolution : {0, 1, 100},
     label_height : {0, 20000}, translate_to_origin : BOOLEAN]

(* click.Path(exists=True) and click.Choice on the command line. *)
CtCliArgs ==
    {a \in CtArgs : a.exists /\ a.elevation_units \in {"meters", "feet"}}

GenerateContoursParams ==
    {"input_file", "output_file", "elevation_units", "contour_interval",
     "grid_resolution", "add_labels", "label_height", "translate_to_origin",
     "progress_callback"}

KmlToContoursKwargs ==
    {"input_file", "output_file", "elevation_units", "contour_interval",
     "grid_resolution", "add_labels", "label_height", "translate_to_origin",
     "target_epsg", "wgs84", "progress_callback"}

(* dx and dy before they are computed. *)
NoCell == [defined |-> FALSE, dx |-> 0, dy |-> 0]

CtInitState(caller, args, kml) ==
    [pc |-> "call", caller |-> caller, args |-> args, kml |-> kml,
     local |-> <<>>, ref |-> Origin, contour_levels |-> <<>>, cell |-> NoCell,
     dxf_saved |-> FALSE, raised_in_process |-> NoError, error |-> NoError,
     progress |-> <<>>, exit_code |-> -1, stderr |-> "none"]

CtProgress(st, percents) ==
    IF st.caller = "api" THEN st.progress \o percents ELSE st.progress

(* generate_contours, lines 77-90: every exception of _process_contours   *)
(* is replaced by ProcessingError.                                         *)
CtWrap(kind) == "ProcessingError"

CtRaiseInProcess(st, kind) ==
    [st EXCEPT !.pc = "raised", !.raised_in_process = kind, !.error = CtWrap(kind)]

CtValidationError(args) ==
    IF ~args.exists THEN "FileNotFoundError"
    ELSE IF args.elevation_units \notin {"meters", "feet"} THEN "ValueError"
    ELSE IF args.contour_interval <= 0 THEN "ValueError"
    ELSE IF args.grid_resolution <= 0 THEN "ValueError"
    ELSE IF args.label_height <= 0 THEN "ValueError"
    ELSE NoError

CtValidate ==
    /\ contours.pc = "call"
    /\ contours.caller = "api"
    /\ LET e == CtValidationError(contours.args) IN
         contours' = IF e # NoError
                     THEN [contours EXCEPT !.pc = "raised", !.error = e]
                     ELSE [contours EXCEPT !.pc = "process"]
    /\ UNCHANGED <<csvkml, mesh, points, refactored, others>>

(* _process_contours, lines 166-239: extract, project, translate, grid.   *)
CtExtract ==
    /\ contours.pc = "process"
    /\ LET st0 == [contours EXCEPT !.progress = CtProgress(contours, <<0>>)]
           pts == contours.kml.points
           feet == ProjectAll(pts, contours.args.elevation_units)
           ref == IF contours.args.translate_to_origin
                  THEN CenterOfBounds(feet) ELSE Origin
       IN  contours' =
             IF ~contours.kml.wellformed THEN CtRaiseInProcess(st0, "FileFormatError")
             ELSE IF Len(pts) < 2 THEN CtRaiseInProcess(st0, "ProcessingError")
             ELSE [st0 EXCEPT !.pc = "interpolate", !.ref = ref,
                              !.local = Translate(feet, ref),
                              !.progress = CtProgress(st0, <<20, 30, 40, 50>>)]
    /\ UNCHANGED <<csvkml, mesh, points, refactored, others>>

(* lines 241-246: griddata(..., method='cubic') triangulates the points   *)
(* and fails on a degenerate set.                                          *)
CtInterpolate ==
    /\ contours.pc = "interpolate"
    /\ contours' =
         IF Degenerate(contours.kml.points)
         THEN CtRaiseInProcess(contours, "ContourGenerationError")
         ELSE [contours EXCEPT !.pc = "contour"]
    /\ UNCHANGED <<csvkml, mesh, points, refactored, others>>

FloorTo(v, step) == (v \div step) * step

CeilTo(v, step) == -FloorTo(-v, step)

(* lines 248-252: the levels from floor(z_min/interval)*interval to       *)
(* ceil(z_max/interval)*interval.                                          *)
ContourLevels(z_min, z_max, interval) ==
    LET contour_start == FloorTo(z_min, interval)
        contour_end == CeilTo(z_max, interval)
        n == (contour_end + interval - contour_start + interval - 1) \div interval
    IN  [i \in 1..n |-> contour_start + (i - 1) * interval]

(* lines 263-266: dx = (x_max - x_min) / (grid_resolution - 1), the same  *)
(* for dy; max_gap = 2 * hypot(dx, dy) is a number whenever dx and dy are. *)
GridCell(local, grid_resolution) ==
    [defined |-> TRUE,
     dx |-> (SeqMax(Column(local, "x")) - SeqMin(Column(local, "x")))
               \div (grid_resolution - 1),
     dy |-> (SeqMax(Column(local, "y")) - SeqMin(Column(local, "y")))
               \div (grid_resolution - 1)]

(* lines 248-266: levels, plt.contour, the jump threshold.  A grid of one *)
(* sample per axis is refused by the contouring call at line 260, before  *)
(* the division by grid_resolution - 1 at line 263 is reached.             *)
CtContour ==
    /\ contours.pc = "contour"
    /\ LET st0 == [contours EXCEPT
                      !.contour_levels =
                          ContourLevels(SeqMin(Column(contours.local, "z")),
                                        SeqMax(Column(contours.local, "z")),
                                        contours.args.contour_interval),
                      !.progress = CtProgress(contours, <<60>>)]
       IN  contours' =
             IF contours.args.grid_resolution < 2
             THEN CtRaiseInProcess(st0, "TypeError")
             ELSE [st0 EXCEPT !.pc = "save",
                              !.cell = GridCell(contours.local,
                                                contours.args.grid_resolution),
                              !.progress = CtProgress(st0, <<70>>)]
    /\ UNCHANGED <<csvkml, mesh, points, refactored, others>>

(* lines 271-357: build the drawing, doc.saveas, the summary. *)
CtSaveDxf ==
    /\ contours.pc = "save"
    /\ LET st0 == [contours EXCEPT !.progress = CtProgress(contours, <<80, 95>>)] IN
       \E save_ok \in BOOLEAN :
         contours' =
           IF save_ok
           THEN [st0 EXCEPT !.pc = "returned", !.dxf_saved = TRUE,
                            !.progress = CtProgress(st0, <<100>>)]
           ELSE CtRaiseInProcess(st0, "OSError")
    /\ UNCHANGED <<csvkml, mesh, points, refactored, others>>

(* commands/kml_to_contours.py, lines 37-66. *)
CmdKmlToContours ==
    /\ contours.pc = "call"
    /\ contours.caller = "cli"
    /\ LET e == IF Binds(KmlToContoursKwargs, GenerateContoursParams)
                THEN NoError ELSE "TypeError"
       IN  contours' = [contours EXCEPT !.pc = "exited", !.error = e,
                                        !.stderr = CmdRender(e),
                                        !.exit_code = IF e = NoError THEN 0 ELSE 1]
    /\ UNCHANGED <<csvkml, mesh, points, refactored, others>>

InitContours ==
    /\ \/ \E a \in CtArgs, k \in KmlFiles : contours = CtInitState("api", a, k)
       \/ \E a \in CtCliArgs, k \in KmlFiles : contours = CtInitState("cli", a, k)
    /\ csvkml = Idle
    /\ mesh = Idle
    /\ points = Idle
    /\ refactored = Idle
    /\ OthersIdle

NextContours ==
    \/ CtValidate
    \/ CtExtract
    \/ CtInterpolate
    \/ CtContour
    \/ CtSaveDxf
    \/ CmdKmlToContours

SpecContours == InitContours /\ [][NextContours]_vars

(* C4: generate_contours surfaces ContourGenerationError exactly when the *)
(* interpolation step failed, and ProcessingError for every other failure *)
(* inside the pipeline.                                                    *)
C4_ContourGenerationErrorSurfaced ==
    (contours.pc = "raised" /\ contours.raised_in_process # NoError)
        => IF contours.raised_in_process = "ContourGenerationError"
           THEN contours.error = "ContourGenerationError"
           ELSE contours.error = "ProcessingError"

(***************************************************************************)
(*                 core/mesh.py : KML points -> TIN mesh DXF               *)
(***************************************************************************)
MsArgs ==
    [exists : BOOLEAN, elevation_units : {"meters", "feet", "yards"},
     translate_to_origin : BOOLEAN, use_reference_point : BOOLEAN,
     mesh_color : {-1, 8}, add_wireframe : BOOLEAN, wireframe_color : {7}]

(* click.Path(exists=True) and click.Choice on the command line. *)
MsCliArgs ==
    {a \in MsArgs : a.exists /\ a.elevation_units \in {"meters", "feet"}}

(* The defaults of the options of kml-to-dxf-mesh. *)
MsCliDefaults ==
    [exists |-> TRUE, elevation_units |-> "meters", translate_to_origin |-> TRUE,
     use_reference_point |-> FALSE, mesh_color |-> 8, add_wireframe |-> TRUE,
     wireframe_color |-> 7]

GenerateMeshParams ==
    {"input_file", "output_file", "elevation_units", "translate_to_origin",
     "use_reference_point", "layer_name", "mesh_color", "add_wireframe",
     "wireframe_color", "progress_callback"}

KmlToMeshKwargs ==
    {"input_file", "output_file", "elevation_units", "translate_to_origin",
     "use_reference_point", "layer_name", "mesh_color", "add_wireframe",
     "wireframe_color", "target_epsg", "wgs84", "progress_callback"}

NoDrawing == [faces |-> <<>>, lines |-> {}, vertices |-> 0]

MsInitState(caller, args, kml) ==
    [pc |-> "call", caller |-> caller, args |-> args, kml |-> kml,
     points_3d |-> <<>>, ref |-> Origin, simplices |-> {},
     face_count |-> 0, edge_count |-> 0,
     dxf_saved |-> FALSE, dxf |-> NoDrawing,
     raised_in_process |-> NoError, error |-> NoError,
     progress |-> <<>>, exit_code |-> -1, stderr |-> "none"]

MsProgress(st, percents) ==
    IF st.caller = "api" THEN st.progress \o percents ELSE st.progress

(* generate_mesh, lines 67-81. *)
MsWrap(kind) == "ProcessingError"

MsRaiseInProcess(st, kind) ==
    [st EXCEPT !.pc = "raised", !.raised_in_process = kind, !.error = MsWrap(kind)]

MsValidationError(args) ==
    IF ~args.exists THEN "FileNotFoundError"
    ELSE IF args.elevation_units \notin {"meters", "feet"} THEN "ValueError"
    ELSE IF args.mesh_color < 0 \/ args.wireframe_color < 0 THEN "ValueError"
    ELSE NoError

MsValidate ==
    /\ mesh.pc = "call"
    /\ mesh.caller = "api"
    /\ LET e == MsValidationError(mesh.args) IN
         mesh' = IF e # NoError
                 THEN [mesh EXCEPT !.pc = "raised", !.error = e]
                 ELSE [mesh EXCEPT !.pc = "process"]
    /\ UNCHANGED <<csvkml, contours, points, refactored, others>>

MsReferenceCenterOnly(feet, translate_to_origin, use_reference_point) ==
    IF ~translate_to_origin THEN Origin ELSE CenterOfBounds(feet)

(* lines 277-298: the reference point of the three translation policies. *)
MsReference(feet, translate_to_origin, use_reference_point) ==
    IF ~translate_to_origin THEN Origin
    ELSE IF use_reference_point THEN [x |-> feet[1].x, y |-> feet[1].y, z |-> feet[1].z]
    ELSE CenterOfBounds(feet)

(* _process_mesh_generation, lines 230-304. *)
MsExtract ==
    /\ mesh.pc = "process"
    /\ LET st0 == [mesh EXCEPT !.progress = MsProgress(mesh, <<0>>)]
           pts == mesh.kml.points
           feet == ProjectAll(pts, mesh.args.elevation_units)
           ref == MsReference(feet, mesh.args.translate_to_origin,
                              mesh.args.use_reference_point)
       IN  mesh' =
             IF ~mesh.kml.wellformed THEN MsRaiseInProcess(st0, "FileFormatError")
             ELSE IF Len(pts) < 3 THEN MsRaiseInProcess(st0, "ProcessingError")
             ELSE [st0 EXCEPT !.pc = "triangulate", !.ref = ref,
                              !.points_3d = Translate(feet, ref),
                              !.progress = MsProgress(st0, <<20, 40>>)]
    /\ UNCHANGED <<csvkml, contours, points, refactored, others>>

(* _create_mesh_dxf, lines 124-139. *)
MsTriangulate ==
    /\ mesh.pc = "triangulate"
    /\ LET st0 == [mesh EXCEPT !.progress = MsProgress(mesh, <<60>>)] IN
         mesh' =
           IF Degenerate(mesh.kml.points)
           THEN MsRaiseInProcess(st0, "ProcessingError")
           ELSE [st0 EXCEPT !.pc = "write", !.simplices = Delaunay(mesh.kml.points)]
    /\ UNCHANGED <<csvkml, contours, points, refactored, others>>

Min2(a, b) == IF a <= b THEN a ELSE b

SimplexEdgesDirected(t) == { <<t[1], t[2]>>, <<t[2], t[3]>>, <<t[3], t[1]>> }

(* lines 190-197: the three edges of a triangle, smaller index first. *)
SimplexEdges(t) ==
    { <<Min2(t[1], t[2]), Max2(t[1], t[2])>>,
      <<Min2(t[2], t[3]), Max2(t[2], t[3])>>,
      <<Min2(t[3], t[1]), Max2(t[3], t[1])>> }

EdgeSet(simplices) == UNION {SimplexEdges(t) : t \in simplices}

RECURSIVE SetToSeq(_)
SetToSeq(S) ==
    IF S = {} THEN <<>>
    ELSE LET x == CHOOSE y \in S : TRUE IN <<x>> \o SetToSeq(S \ {x})

(* _create_mesh_dxf, lines 141-213, and the summary, lines 312-339: one   *)
(* 3DFACE per simplex, one LINE per collected edge, doc.saveas.            *)
MsWriteDxf ==
    /\ mesh.pc = "write"
    /\ LET st0 == [mesh EXCEPT !.progress = MsProgress(mesh, <<80>>)]
           faces == SetToSeq(mesh.simplices)
           edge_set == IF mesh.args.add_wireframe THEN EdgeSet(mesh.simplices) ELSE {}
       IN
       \E save_ok \in BOOLEAN :
         mesh' =
           IF save_ok
           THEN [st0 EXCEPT !.pc = "returned", !.dxf_saved = TRUE,
                            !.face_count = Len(faces),
                            !.edge_count = Cardinality(edge_set),
                            !.dxf = [faces |-> faces, lines |-> edge_set,
                                     vertices |-> Len(mesh.points_3d)],
                            !.progress = MsProgress(st0, <<100>>)]
           ELSE MsRaiseInProcess(st0, "OSError")
    /\ UNCHANGED <<csvkml, contours, points, refactored, others>>

(* commands/kml_to_mesh.py, lines 43-73. *)
CmdKmlToMesh ==
    /\ mesh.pc = "call"
    /\ mesh.caller = "cli"
    /\ LET e == IF Binds(KmlToMeshKwargs, GenerateMeshParams)
                THEN NoError ELSE "TypeError"
       IN  mesh' = [mesh EXCEPT !.pc = "exited", !.error = e,
                                !.stderr = CmdRender(e),
                                !.exit_code = IF e = NoError THEN 0 ELSE 1]
    /\ UNCHANGED <<csvkml, contours, points, refactored, others>>

InitMesh ==
    /\ \/ \E a \in MsArgs, k \in KmlFiles : mesh = MsInitState("api", a, k)
       \/ \E a \in MsCliArgs, k \in KmlFiles : mesh = MsInitState("cli", a, k)
    /\ csvkml = Idle
    /\ contours = Idle
    /\ points = Idle
    /\ refactored = Idle
    /\ OthersIdle

NextMesh ==
    \/ MsValidate
    \/ MsExtract
    \/ MsTriangulate
    \/ MsWriteDxf
    \/ CmdKmlToMesh

SpecMesh == InitMesh /\ [][NextMesh]_vars

(* C8: kml-to-dxf-mesh with default options on a KML of three             *)
(* non-collinear points succeeds and writes a drawing of exactly 1 face,  *)
(* 3 vertices and 3 wireframe edges.                                       *)
C8_ThreePointMeshFromCommand ==
    (/\ mesh.pc = "exited"
     /\ mesh.args = MsCliDefaults
     /\ mesh.kml.wellformed
     /\ Len(mesh.kml.points) = 3
     /\ ~Degenerate(mesh.kml.points))
        => /\ mesh.exit_code = 0
           /\ mesh.dxf_saved
           /\ Len(mesh.dxf.faces) = 1
           /\ mesh.dxf.vertices = 3
           /\ Cardinality(mesh.dxf.lines) = 3

(***************************************************************************)
(*            core/points.py : KML points -> DXF / CSV / JSON / TXT        *)
(***************************************************************************)
PtFormats == {"dxf", "csv", "json", "txt", "xml"}

PtArgs ==
    [exists : BOOLEAN, output_format : PtFormats,
     elevation_units : {"meters", "feet", "yards"}, point_color : {-1, 7},
     translate_to_origin : BOOLEAN, use_reference_point : BOOLEAN,
     target_epsg : {0, 26914}, wgs84 : BOOLEAN]

(* commands/kml_to_points.py: click.Path(exists=True), the click.Choice   *)
(* options, and a call that passes neither target_epsg nor wgs84.          *)
PtCliArgs ==
    {a \in PtArgs : /\ a.exists
                    /\ a.output_format \in {"dxf", "csv", "json", "txt"}
                    /\ a.elevation_units \in {"meters", "feet"}
                    /\ a.target_epsg = 0
                    /\ ~a.wgs84}

NoFile == [complete |-> FALSE, kind |-> "none", elevation_units |-> "", count |-> 0,
           records |-> <<>>]

PtInitState(caller, args, kml) ==
    [pc |-> "call", caller |-> caller, args |-> args, kml |-> kml,
     file_exists |-> FALSE, file |-> NoFile, ref |-> Origin,
     raised_in_process |-> NoError, error |-> NoError,
     progress |-> <<>>, exit_code |-> -1, stderr |-> "none"]

PtProgress(st, percents) ==
    IF st.caller = "api" THEN st.progress \o percents ELSE st.progress

(* extract_points, lines 76-91. *)
PtWrap(kind) == "ProcessingError"

PtRaiseInProcess(st, kind) ==
    [st EXCEPT !.pc = "raised", !.raised_in_process = kind, !.error = PtWrap(kind)]

PtValidationError(args) ==
    IF ~args.exists THEN "FileNotFoundError"
    ELSE IF args.elevation_units \notin {"meters", "feet"} THEN "ValueError"
    ELSE IF args.output_format \notin {"dxf", "csv", "json", "txt"} THEN "ValueError"
    ELSE IF args.output_format = "dxf" /\ args.point_color < 0 THEN "ValueError"
    ELSE NoError

PtValidate ==
    /\ points.pc = "call"
    /\ LET e == PtValidationError(points.args) IN
         points' = IF e # NoError
                   THEN [points EXCEPT !.pc = "raised", !.error = e]
                   ELSE [points EXCEPT !.pc = "process"]
    /\ UNCHANGED <<csvkml, contours, mesh, refactored, others>>

(* _process_points_extraction, lines 226-239. *)
PtExtract ==
    /\ points.pc = "process"
    /\ LET st0 == [points EXCEPT !.progress = PtProgress(points, <<0>>)] IN
         points' =
           IF ~points.kml.wellformed THEN PtRaiseInProcess(st0, "FileFormatError")
           ELSE IF Len(points.kml.points) = 0 THEN PtRaiseInProcess(st0, "ProcessingError")
           ELSE [st0 EXCEPT !.pc = "write", !.progress = PtProgress(st0, <<20>>)]
    /\ UNCHANGED <<csvkml, contours, mesh, refactored, others>>

PtCsvElevationUnconverted(elev, elevation_units) == elev

(* _write_csv_points, lines 163-168. *)
PtCsvElevation(elev, elevation_units) ==
    IF elevation_units = "feet" THEN Scale(elev, FT_TO_M) ELSE elev

(* _write_csv_points, lines 157-170: Latitude,Longitude,Elevation rows. *)
WriteCsvPoints(pts, elevation_units) ==
    [complete |-> TRUE, kind |-> "csv", elevation_units |-> "", count |-> 0,
     records |-> [i \in 1..Len(pts) |->
                    [latitude |-> pts[i].lat, longitude |-> pts[i].lon,
                     elevation |-> PtCsvElevation(pts[i].elev, elevation_units)]]]

(* _write_json_points, lines 173-194. *)
WriteJsonPoints(pts, elevation_units) ==
    [complete |-> TRUE, kind |-> "json", elevation_units |-> elevation_units,
     count |-> Len(pts),
     records |-> [i \in 1..Len(pts) |->
                    [id |-> i, longitude |-> pts[i].lon, latitude |-> pts[i].lat,
                     elevation |-> pts[i].elev, elevation_units |-> elevation_units]]]

(* _write_txt_points, lines 197-208: six decimals for the position (the   *)
(* explored positions have four), two for the elevation.                   *)
WriteTxtPoints(pts, elevation_units) ==
    [complete |-> TRUE, kind |-> "txt", elevation_units |-> elevation_units,
     count |-> Len(pts),
     records |-> [i \in 1..Len(pts) |->
                    [id |-> i, longitude |-> pts[i].lon, latitude |-> pts[i].lat,
                     elevation |-> RoundTo(pts[i].elev, 100)]]]

(* What is left of a file whose writing failed after open(): its head. *)
Truncated(content) == [content EXCEPT !.complete = FALSE, !.records = <<>>]

(* lines 241-259: the three unprojected formats. *)
PtWritePlain ==
    /\ points.pc = "write"
    /\ points.args.output_format \in {"csv", "json", "txt"}
    /\ LET fmt == points.args.output_format
           st0 == [points EXCEPT !.progress = PtProgress(points, <<80>>)]
           content == CASE fmt = "csv" ->
                             WriteCsvPoints(points.kml.points, points.args.elevation_units)
                        [] fmt = "json" ->
                             WriteJsonPoints(points.kml.points, points.args.elevation_units)
                        [] OTHER ->
                             WriteTxtPoints(points.kml.points, points.args.elevation_units)
       IN
       \E outcome \in {"ok", "open_fails", "write_fails"} :
         points' =
           CASE outcome = "open_fails" -> PtRaiseInProcess(st0, "OSError")
             [] outcome = "write_fails" ->
                  PtRaiseInProcess([st0 EXCEPT !.file_exists = TRUE,
                                               !.file = Truncated(content)], "OSError")
             [] OTHER ->
                  [st0 EXCEPT !.pc = "returned", !.file_exists = TRUE, !.file = content,
                              !.progress = PtProgress(st0, <<100>>)]
    /\ UNCHANGED <<csvkml, contours, mesh, refactored, others>>

(* utils/projection.get_target_crs: the explicit EPSG if given, else      *)
(* WGS84 when asked to keep it, else the UTM zone of the sample point.     *)
GetTargetCrs(target_epsg, wgs84) ==
    IF target_epsg # 0 THEN "epsg" ELSE IF wgs84 THEN "wgs84" ELSE "utm"

(* lines 280-304: project one point; feet unless wgs84 is set. *)
PtProject(p, target_epsg, wgs84, elevation_units) ==
    LET crs == GetTargetCrs(target_epsg, wgs84)
        xy == IF crs = "wgs84" THEN <<p.lon, p.lat>> ELSE Transform(p.lon, p.lat)
    IN  [x |-> IF ~wgs84 THEN Scale(xy[1], M_TO_FT) ELSE xy[1],
         y |-> IF ~wgs84 THEN Scale(xy[2], M_TO_FT) ELSE xy[2],
         z |-> IF wgs84 THEN p.elev
               ELSE IF elevation_units = "meters" THEN Scale(p.elev, M_TO_FT)
               ELSE p.elev]

(* lines 261-377: the DXF format. *)
PtWriteDxf ==
    /\ points.pc = "write"
    /\ points.args.output_format = "dxf"
    /\ LET a == points.args
           st0 == [points EXCEPT !.progress = PtProgress(points, <<40, 60, 80>>)]
           vals == [i \in 1..Len(points.kml.points) |->
                      PtProject(points.kml.points[i], a.target_epsg, a.wgs84,
                                a.elevation_units)]
           ref == IF ~a.translate_to_origin THEN Origin
                  ELSE IF a.use_reference_point
                       THEN [x |-> vals[1].x, y |-> vals[1].y, z |-> vals[1].z]
                       ELSE CenterOfBounds(vals)
           kept == IF a.translate_to_origin /\ a.use_reference_point
                   THEN Tail(vals) ELSE vals
           points_3d == Translate(kept, ref)
       IN
       \E save_ok \in BOOLEAN :
         points' =
           IF save_ok
           THEN [st0 EXCEPT !.pc = "returned", !.file_exists = TRUE, !.ref = ref,
                            !.file = [complete |-> TRUE, kind |-> "dxf",
                                      elevation_units |-> "", count |-> Len(points_3d),
                                      records |-> points_3d],
                            !.progress = PtProgress(st0, <<100>>)]
           ELSE PtRaiseInProcess([st0 EXCEPT !.ref = ref], "OSError")
    /\ UNCHANGED <<csvkml, contours, mesh, refactored, others>>

(* commands/kml_to_points.py, lines 36-69. *)
CmdKmlToPoints ==
    /\ points.pc \in {"returned", "raised"}
    /\ points.caller = "cli"
    /\ points' = [points EXCEPT !.pc = "exited",
                                !.stderr = CmdRender(points.error),
                                !.exit_code = IF points.error = NoError THEN 0 ELSE 1]
    /\ UNCHANGED <<csvkml, contours, mesh, refactored, others>>

(***************************************************************************)
(*        core/points_refactored.py : the structured-result variant        *)
(***************************************************************************)
RfArgs ==
    [exists : BOOLEAN, output_format : PtFormats,
     elevation_units : {"meters", "feet", "yards"},
     translate_to_origin : BOOLEAN, target_epsg : {0, 26914}, wgs84 : BOOLEAN]

NoResult ==
    [success |-> FALSE, point_count |-> 0, format |-> "", elevation_units |-> "",
     coordinate_system |-> "", coordinate_ranges |-> <<>>]

RfInitState(args, kml) ==
    [pc |-> "call", args |-> args, kml |-> kml, file_exists |-> FALSE,
     error |-> NoError, result |-> NoResult, progress |-> <<>>]

RfValidationError(args) ==
    IF ~args.exists THEN "FileNotFoundError"
    ELSE IF args.elevation_units \notin {"meters", "feet"} THEN "ValueError"
    ELSE IF args.output_format \notin {"dxf", "csv", "json", "txt"} THEN "ValueError"
    ELSE IF args.output_format = "dxf" /\ args.target_epsg # 0 /\ args.wgs84
         THEN "ValueError"
    ELSE NoError

(* extract_points_refactored, lines 60-76. *)
RfValidate ==
    /\ refactored.pc = "call"
    /\ LET e == RfValidationError(refactored.args) IN
         refactored' = IF e # NoError
                       THEN [refactored EXCEPT !.pc = "raised", !.error = e]
                       ELSE [refactored EXCEPT !.pc = "extract"]
    /\ UNCHANGED <<csvkml, contours, mesh, points, others>>

(* A Python value that is None or a list. *)
PyNone == [is_none |-> TRUE, items |-> <<>>]

Falsy(v) == v.is_none \/ v.items = <<>>

(* _extract_kml_points of points_refactored.py, lines 157-160: the body   *)
(* is "pass", so the call returns None whatever the file holds.            *)
RfExtractKmlPoints(kml) == PyNone

(* extract_points_refactored, lines 78-153.  The three writers of this    *)
(* module are "pass" as well and leave no file; the DXF branch reads      *)
(* ref_x, which no statement has assigned.                                 *)
RfProcess ==
    /\ refactored.pc = "extract"
    /\ LET kml_points == RfExtractKmlPoints(refactored.kml)
           pts == kml_points.items
           a == refactored.args
           result == [success |-> TRUE, point_count |-> Len(pts),
                      format |-> a.output_format,
                      elevation_units |-> a.elevation_units,
                      coordinate_system |-> "", coordinate_ranges |-> <<>>]
       IN  refactored' =
             IF Falsy(kml_points)
             THEN [refactored EXCEPT !.pc = "raised", !.error = "ProcessingError",
                                     !.progress = <<0>>]
             ELSE IF a.output_format \in {"csv", "json", "txt"}
             THEN [refactored EXCEPT
                     !.pc = "returned",
                     !.progress = <<0, 20, 80, 100>>,
                     !.result =
                        [result EXCEPT
                           !.coordinate_system = "WGS84 (geographic)",
                           !.coordinate_ranges =
                              <<[longitude |-> <<SeqMin(Column(pts, "lon")),
                                                 SeqMax(Column(pts, "lon"))>>,
                                 latitude |-> <<SeqMin(Column(pts, "lat")),
                                                SeqMax(Column(pts, "lat"))>>,
                                 elevation |-> <<SeqMin(Column(pts, "elev")),
                                                 SeqMax(Column(pts, "elev"))>>]>>]]
             ELSE IF a.translate_to_origin
             THEN [refactored EXCEPT !.pc = "raised", !.error = "NameError",
                                     !.progress = <<0, 20>>]
             ELSE [refactored EXCEPT
                     !.pc = "returned", !.progress = <<0, 20>>,
                     !.result =
                        [result EXCEPT
                           !.coordinate_system =
                              IF a.wgs84 THEN "WGS84 (degrees)"
                              ELSE IF a.target_epsg # 0 THEN "EPSG"
                              ELSE "Auto-detected UTM zone"]]
    /\ UNCHANGED <<csvkml, contours, mesh, points, others>>

InitPoints ==
    /\ \/ /\ \/ \E a \in PtArgs, k \in KmlFiles : points = PtInitState("api", a, k)
             \/ \E a \in PtCliArgs, k \in KmlFiles : points = PtInitState("cli", a, k)
          /\ refactored = Idle
       \/ /\ \E a \in RfArgs, k \in KmlFiles : refactored = RfInitState(a, k)
          /\ points = Idle
    /\ csvkml = Idle
    /\ contours = Idle
    /\ mesh = Idle
    /\ OthersIdle

NextPoints ==
    \/ PtValidate
    \/ PtExtract
    \/ PtWritePlain
    \/ PtWriteDxf
    \/ CmdKmlToPoints
    \/ RfValidate
    \/ RfProcess

SpecPoints == InitPoints /\ [][NextPoints]_vars

(***************************************************************************)
(*                   Properties of the point extraction                    *)
(***************************************************************************)
PtWroteFormat(fmt) ==
    /\ points.pc \in {"returned", "exited"}
    /\ points.error = NoError
    /\ points.args.output_format = fmt

C10_RefactoredReturnsPopulatedResult ==
    (/\ refactored.pc \in {"returned", "raised"}
     /\ RfValidationError(refactored.args) = NoError
     /\ refactored.args.output_format \in {"csv", "json", "txt"}
     /\ refactored.kml.wellformed
     /\ Len(refactored.kml.points) >= 1)
        => /\ refactored.pc = "returned"
           /\ refactored.result.success
           /\ refactored.result.point_count = Len(refactored.kml.points)
           /\ refactored.result.coordinate_system = "WGS84 (geographic)"
           /\ Len(refactored.result.coordinate_ranges) = 1
           /\ refactored.result.coordinate_ranges[1].longitude
                = <<SeqMin(Column(refactored.kml.points, "lon")),
                    SeqMax(Column(refactored.kml.points, "lon"))>>
           /\ refactored.result.coordinate_ranges[1].latitude
                = <<SeqMin(Column(refactored.kml.points, "lat")),
                    SeqMax(Column(refactored.kml.points, "lat"))>>
           /\ refactored.result.coordinate_ranges[1].elevation
                = <<SeqMin(Column(refactored.kml.points, "elev")),
                    SeqMax(Column(refactored.kml.points, "elev"))>>

(***************************************************************************)
(*       One KML file handed to generate_mesh and to extract_points        *)
(***************************************************************************)

(* Valid arguments of generate_mesh; the translation policy and the unit  *)
(* vary.                                                                   *)
RpMeshArgs ==
    {a \in MsArgs : /\ a.exists
                    /\ a.elevation_units \in {"meters", "feet"}
                    /\ a.mesh_color = 8
                    /\ a.add_wireframe}

(* Valid arguments of extract_points for the DXF format. *)
RpPointsArgs ==
    {a \in PtArgs : /\ a.exists
                    /\ a.output_format = "dxf"
                    /\ a.elevation_units \in {"meters", "feet"}
                    /\ a.point_color = 7}

InitRefPoint ==
    /\ \E k \in KmlFiles :
         /\ \E a \in RpMeshArgs : mesh = MsInitState("api", a, k)
         /\ \E a \in RpPointsArgs : points = PtInitState("api", a, k)
    /\ csvkml = Idle
    /\ contours = Idle
    /\ refactored = Idle
    /\ OthersIdle

NextRefPoint ==
    \/ MsValidate
    \/ MsExtract
    \/ MsTriangulate
    \/ MsWriteDxf
    \/ PtValidate
    \/ PtExtract
    \/ PtWriteDxf

SpecRefPoint == InitRefPoint /\ [][NextRefPoint]_vars

Minus(p, q) == [x |-> p.x - q.x, y |-> p.y - q.y, z |-> p.z - q.z]

MsRefMode ==
    /\ mesh.pc = "returned"
    /\ mesh.args.translate_to_origin
    /\ mesh.args.use_reference_point

PtRefMode ==
    /\ points.pc = "returned"
    /\ points.args.output_format = "dxf"
    /\ points.args.translate_to_origin
    /\ points.args.use_reference_point

(* C11: in reference-point mode generate_mesh keeps the first point: the  *)
(* drawing has N vertices, the first is exactly (0,0,0) and every vertex  *)
(* is its projected position minus that of the first point;               *)
(* extract_points (DXF) removes it: the drawing has exactly N-1 points,   *)
(* each its projected position minus that of the first point.              *)
C11_ReferencePointKeptOrRemoved ==
    /\ MsRefMode =>
         LET N == Len(mesh.kml.points)
             proj == ProjectAll(mesh.kml.points, mesh.args.elevation_units)
         IN  /\ mesh.dxf.vertices = N
             /\ Len(mesh.points_3d) = N
             /\ mesh.points_3d[1] = Origin
             /\ \A i \in 1..N : mesh.points_3d[i] = Minus(proj[i], proj[1])
    /\ PtRefMode =>
         LET N == Len(points.kml.points)
             a == points.args
             proj == [i \in 1..N |->
                        PtProject(points.kml.points[i], a.target_epsg, a.wgs84,
                                  a.elevation_units)]
         IN  /\ points.file.count = N - 1
             /\ Len(points.file.records) = N - 1
             /\ \A i \in 1..(N - 1) :
                  points.file.records[i] = Minus(proj[i + 1], proj[1])

(* Both routines have finished in reference-point mode on one file of     *)
(* three points: three vertices with the first at the origin, two points. *)
C11_Witness ==
    /\ MsRefMode
    /\ PtRefMode
    /\ Len(mesh.kml.points) = 3
    /\ mesh.dxf.vertices = 3
    /\ mesh.points_3d[1] = Origin
    /\ mesh.points_3d[2] # Origin
    /\ Len(points.file.records) = 2
    /\ Origin \notin {points.file.records[i] : i \in 1..2}

(***************************************************************************)
(*   One KML file handed to generate_contours, generate_mesh and           *)
(*   extract_points (DXF) with one choice of unit and translation policy   *)
(***************************************************************************)
InitTranslate ==
    /\ \E k \in KmlFiles, u \in {"meters", "feet"}, t \in BOOLEAN, r \in BOOLEAN,
          e \in {0, 26914}, w \in BOOLEAN :
         /\ contours = CtInitState("api",
                [exists |-> TRUE, elevation_units |-> u, contour_interval |-> 10000,
                 grid_resolution |-> 100, label_height |-> 20000,
                 translate_to_origin |-> t], k)
         /\ mesh = MsInitState("api",
                [exists |-> TRUE, elevation_units |-> u, translate_to_origin |-> t,
                 use_reference_point |-> r, mesh_color |-> 8, add_wireframe |-> TRUE,
                 wireframe_color |-> 7], k)
         /\ points = PtInitState("api",
                [exists |-> TRUE, output_format |-> "dxf", elevation_units |-> u,
                 point_color |-> 7, translate_to_origin |-> t,
                 use_reference_point |-> r, target_epsg |-> e, wgs84 |-> w], k)
    /\ csvkml = Idle
    /\ refactored = Idle
    /\ OthersIdle

NextTranslate ==
    \/ CtValidate
    \/ CtExtract
    \/ CtInterpolate
    \/ CtContour
    \/ CtSaveDxf
    \/ MsValidate
    \/ MsExtract
    \/ MsTriangulate
    \/ MsWriteDxf
    \/ PtValidate
    \/ PtExtract
    \/ PtWriteDxf

SpecTranslate == InitTranslate /\ [][NextTranslate]_vars

(* The projected coordinates of the three routines before translation. *)
CtProjected == ProjectAll(contours.kml.points, contours.args.elevation_units)

MsProjected == ProjectAll(mesh.kml.points, mesh.args.elevation_units)

PtProjected ==
    [i \in 1..Len(points.kml.points) |->
        PtProject(points.kml.points[i], points.args.target_epsg, points.args.wgs84,
                  points.args.elevation_units)]

CtDone == contours.pc = "returned"

MsDone == mesh.pc = "returned"

PtDone == points.pc = "returned" /\ points.args.output_format = "dxf"

CtCentroidMode == CtDone /\ contours.args.translate_to_origin

MsCentroidMode ==
    MsDone /\ mesh.args.translate_to_origin /\ ~mesh.args.use_reference_point

PtCentroidMode ==
    PtDone /\ points.args.translate_to_origin /\ ~points.args.use_reference_point

(* One origin for every point: each output point is its projected         *)
(* position minus ref.                                                     *)
OneOrigin(out, proj, ref) ==
    /\ Len(out) = Len(proj)
    /\ \A i \in 1..Len(out) : out[i] = Minus(proj[i], ref)

StraddlesZero(out, f) ==
    /\ SeqMin(Column(out, f)) <= 0
    /\ SeqMax(Column(out, f)) >= 0

(* C12 as stated, for one routine's output. *)
CentroidExact(out, proj, ref) ==
    /\ OneOrigin(out, proj, ref)
    /\ 2 * ref.x = SeqMin(Column(proj, "x")) + SeqMax(Column(proj, "x"))
    /\ 2 * ref.y = SeqMin(Column(proj, "y")) + SeqMax(Column(proj, "y"))
    /\ ref.z = SeqMin(Column(proj, "z"))
    /\ StraddlesZero(out, "x")
    /\ StraddlesZero(out, "y")
    /\ SeqMin(Column(out, "x")) = -SeqMax(Column(out, "x"))
    /\ SeqMin(Column(out, "z")) = 0

(* One unit in the last place kept. *)
Ulp == 1

Near(a, b) == a - b <= Ulp /\ b - a <= Ulp

(* C12 amended, for one routine's output: the midpoint is the rounded one. *)
CentroidRounded(out, proj, ref) ==
    /\ OneOrigin(out, proj, ref)
    /\ Near(2 * ref.x, SeqMin(Column(proj, "x")) + SeqMax(Column(proj, "x")))
    /\ Near(2 * ref.y, SeqMin(Column(proj, "y")) + SeqMax(Column(proj, "y")))
    /\ SeqMin(Column(proj, "x")) <= ref.x /\ ref.x <= SeqMax(Column(proj, "x"))
    /\ SeqMin(Column(proj, "y")) <= ref.y /\ ref.y <= SeqMax(Column(proj, "y"))
    /\ ref.z = SeqMin(Column(proj, "z"))
    /\ StraddlesZero(out, "x")
    /\ StraddlesZero(out, "y")
    /\ Near(SeqMin(Column(out, "x")), -SeqMax(Column(out, "x")))
    /\ Near(SeqMin(Column(out, "y")), -SeqMax(Column(out, "y")))
    /\ SeqMin(Column(out, "z")) = 0

Untranslated ==
    /\ (CtDone /\ ~contours.args.translate_to_origin) => contours.local = CtProjected
    /\ (MsDone /\ ~mesh.args.translate_to_origin) => mesh.points_3d = MsProjected
    /\ (PtDone /\ ~points.args.translate_to_origin) => points.file.records = PtProjected

(* C12 as stated: in centroid mode of the contour, mesh and points-DXF    *)
(* pipelines one origin is applied to every point, its x and y are the    *)
(* midpoints of the bounding box and its z the minimum z, so that         *)
(* min(x) <= 0 <= max(x), min(y) <= 0 <= max(y), min(x) = -max(x) and the *)
(* minimum translated z is exactly 0; with translation off the output is  *)
(* the projected coordinates.                                              *)
C12_CentroidExactlySymmetric ==
    /\ CtCentroidMode => CentroidExact(contours.local, CtProjected, contours.ref)
    /\ MsCentroidMode => CentroidExact(mesh.points_3d, MsProjected, mesh.ref)
    /\ PtCentroidMode => CentroidExact(points.file.records, PtProjected, points.ref)
    /\ Untranslated

(* C12 amended: in centroid mode one origin is applied to every point;    *)
(* its x and y are the bounding-box midpoints rounded to a representable  *)
(* value (within the bounds) and its z is the minimum z, so that          *)
(* min(x) <= 0 <= max(x), min(y) <= 0 <= max(y), min and -max agree up to *)
(* one unit in the last place, and the minimum translated z is exactly 0; *)
(* with translation off the output is the projected coordinates.           *)
C12_CentroidWithinRounding ==
    /\ CtCentroidMode => CentroidRounded(contours.local, CtProjected, contours.ref)
    /\ MsCentroidMode => CentroidRounded(mesh.points_3d, MsProjected, mesh.ref)
    /\ PtCentroidMode => CentroidRounded(points.file.records, PtProjected, points.ref)
    /\ Untranslated

(* The three routines have finished in centroid mode on one file of three *)
(* points whose lowest point is not the first.                             *)
C12_Witness ==
    /\ CtCentroidMode
    /\ MsCentroidMode
    /\ PtCentroidMode
    /\ Len(mesh.kml.points) = 3
    /\ mesh.ref # Origin
    /\ mesh.points_3d[1].z > 0
    /\ SeqMin(Column(mesh.points_3d, "x")) < 0
    /\ SeqMax(Column(contours.local, "y")) > 0
    /\ SeqMin(Column(points.file.records, "z")) = 0

(***************************************************************************)
(*        core/combined_dxf.py : several CSV files -> one DXF              *)
(***************************************************************************)
MaxFiles == 2

(* Rows of the explored CSV files: latitude and longitude in 10^-4        *)
(* degrees, elevation in 10^-4 m.  The lowest x, the lowest y and the     *)
(* lowest z belong to three different rows.                                *)
MdRowP == [lat |-> 450010, lon |-> -990000, elev |-> 50000]

MdRowQ == [lat |-> 450000, lon |-> -989990, elev |-> 100000]

MdRowR == [lat |-> 450005, lon |-> -989981, elev |-> 0]

MdColumns == {"Latitude", "Longitude", "Elevation"}

MdTable(rows) == [exists |-> TRUE, parsed |-> TRUE, columns |-> MdColumns, rows |-> rows]

(* What pd.read_csv gives for the explored files. *)
MdTables ==
    { [exists |-> FALSE, parsed |-> FALSE, columns |-> {}, rows |-> <<>>],
      [exists |-> TRUE, parsed |-> FALSE, columns |-> {}, rows |-> <<>>],
      [exists |-> TRUE, parsed |-> TRUE, columns |-> {"Latitude", "Longitude"},
       rows |-> <<MdRowP>>],
      MdTable(<<>>),
      MdTable(<<MdRowP>>),
      MdTable(<<MdRowQ, MdRowR>>),
      MdTable(<<MdRowR, MdRowQ, MdRowP>>) }

MdArgs == [target_epsg : {0, 26914}, wgs84 : BOOLEAN]

(* The paths of the explored files: two files of the same name in         *)
(* different directories and a third one.                                  *)
MdPaths ==
    { [parent |-> "a", stem |-> "site"],
      [parent |-> "b", stem |-> "site"],
      [parent |-> "a", stem |-> "other"] }

(* The path of each position of csv_files; a path given twice is the same *)
(* file.                                                                   *)
MdPathLists(files) ==
    {paths \in [1..Len(files) -> MdPaths] :
        \A m, n \in 1..Len(files) : paths[m] = paths[n] => files[m] = files[n]}

MdInitState(files, paths, args) ==
    [pc |-> "call", files |-> files, paths |-> paths, args |-> args, i |-> 0,
     datasets |-> <<>>, layers |-> <<>>,
     all |-> <<>>, global_min |-> Origin, j |-> 0, emitted |-> <<>>,
     dxf_saved |-> FALSE, raised_in_process |-> NoError, error |-> NoError,
     progress |-> <<>>]

(* merge_csv_to_dxf, lines 56-65. *)
MdWrap(kind) == "ProcessingError"

MdRaiseInProcess(st, kind) ==
    [st EXCEPT !.pc = "raised", !.raised_in_process = kind, !.error = MdWrap(kind)]

(* merge_csv_to_dxf, lines 46-54. *)
MdValidate ==
    /\ mergedxf.pc = "call"
    /\ mergedxf' =
         IF \E n \in 1..Len(mergedxf.files) : ~mergedxf.files[n].exists
         THEN [mergedxf EXCEPT !.pc = "raised", !.error = "FileNotFoundError"]
         ELSE IF mergedxf.files = <<>>
         THEN [mergedxf EXCEPT !.pc = "raised", !.error = "ValueError"]
         ELSE [mergedxf EXCEPT !.pc = "setup"]
    /\ UNCHANGED <<conversions, mergekml, heatmap, monitor, call>>

(* _process_csv_merge, lines 120-133: the target CRS from the first row   *)
(* of the first file.                                                      *)
MdSetup ==
    /\ mergedxf.pc = "setup"
    /\ LET st0 == [mergedxf EXCEPT !.progress = <<0>>]
           sample_df == mergedxf.files[1]
       IN  mergedxf' =
             IF ~sample_df.parsed THEN MdRaiseInProcess(st0, "ParserError")
             ELSE IF /\ "Latitude" \in sample_df.columns
                     /\ "Longitude" \in sample_df.columns
                     /\ Len(sample_df.rows) > 0
             THEN [st0 EXCEPT !.pc = "read"]
             ELSE MdRaiseInProcess(st0, "ProcessingError")
    /\ UNCHANGED <<conversions, mergekml, heatmap, monitor, call>>

(* _read_and_transform_csv, lines 85-102. *)
MdTransformRow(row, target_epsg, wgs84) ==
    LET crs == GetTargetCrs(target_epsg, wgs84)
        xy == IF crs = "wgs84" THEN <<row.lon, row.lat>> ELSE Transform(row.lon, row.lat)
    IN  [x |-> IF ~wgs84 THEN Scale(xy[1], M_TO_FT) ELSE xy[1],
         y |-> IF ~wgs84 THEN Scale(xy[2], M_TO_FT) ELSE xy[2],
         z |-> IF ~wgs84 THEN Scale(row.elev, M_TO_FT) ELSE row.elev]

StagePercentReversed(base, i, total, span) == base + span - (i * span) \div total

(* int(base + (i / total) * span) *)
StagePercent(base, i, total, span) == base + (i * span) \div total

(* lines 143-157: one iteration of the reading loop. *)
MdReadFile ==
    /\ mergedxf.pc = "read"
    /\ mergedxf.i < Len(mergedxf.files)
    /\ LET total_files == Len(mergedxf.files)
           st0 == [mergedxf EXCEPT
                     !.progress = @ \o <<StagePercent(20, mergedxf.i, total_files, 40)>>]
           df == mergedxf.files[mergedxf.i + 1]
           xyz == [n \in 1..Len(df.rows) |->
                      MdTransformRow(df.rows[n], mergedxf.args.target_epsg,
                                     mergedxf.args.wgs84)]
       IN  mergedxf' =
             IF ~df.parsed THEN MdRaiseInProcess(st0, "FileFormatError")
             ELSE IF ~(MdColumns \subseteq df.columns)
             THEN MdRaiseInProcess(st0, "FileFormatError")
             ELSE [st0 EXCEPT !.i = @ + 1, !.all = @ \o xyz,
                              !.datasets = Append(@, xyz)]
    /\ UNCHANGED <<conversions, mergekml, heatmap, monitor, call>>

(* lines 162-165: the global minimum corner. *)
MdGlobalMin(all, datasets) ==
    IF all = <<>> THEN Origin
    ELSE [x |-> SeqMin(Column(all, "x")),
          y |-> SeqMin(Column(all, "y")),
          z |-> SeqMin(Column(all, "z"))]

(* lines 159-185. *)
MdBounds ==
    /\ mergedxf.pc = "read"
    /\ mergedxf.i = Len(mergedxf.files)
    /\ mergedxf' = [mergedxf EXCEPT
                      !.pc = "layers",
                      !.global_min = MdGlobalMin(mergedxf.all, mergedxf.datasets),
                      !.progress = @ \o <<60, 70>>]
    /\ UNCHANGED <<conversions, mergekml, heatmap, monitor, call>>

(* line 187: color_list *)
ColorList == <<1, 2, 3, 4, 5, 6, 7, 140, 141, 42, 43, 180, 210>>

(* lines 194-195, for position i (from 0) of datasets: the stem alone     *)
(* names the layer, the directory of the file is not part of it.          *)
LayerOf(path, i) ==
    [name |-> <<path.stem, "_POINTS">>,
     color |-> ColorList[(i % Len(ColorList)) + 1]]

(* lines 189-209: one layer, its points shifted by the global corner.     *)
(* doc.layers.new refuses a name that is already in the layer table.      *)
MdAddLayer ==
    /\ mergedxf.pc = "layers"
    /\ mergedxf.j < Len(mergedxf.datasets)
    /\ LET df == mergedxf.datasets[mergedxf.j + 1]
           layer == LayerOf(mergedxf.paths[mergedxf.j + 1], mergedxf.j)
           local == [n \in 1..Len(df) |->
                       [layer |-> mergedxf.j + 1,
                        x |-> df[n].x - mergedxf.global_min.x,
                        y |-> df[n].y - mergedxf.global_min.y,
                        z |-> df[n].z - mergedxf.global_min.z]]
           st0 == [mergedxf EXCEPT
                     !.layers = Append(@, layer),
                     !.progress = @ \o <<StagePercent(70, mergedxf.j,
                                                      Len(mergedxf.datasets), 25)>>]
       IN  mergedxf' =
             IF \E n \in 1..Len(mergedxf.layers) : mergedxf.layers[n].name = layer.name
             THEN MdRaiseInProcess(st0, "DXFTableEntryError")
             ELSE [st0 EXCEPT !.j = @ + 1, !.emitted = @ \o local]
    /\ UNCHANGED <<conversions, mergekml, heatmap, monitor, call>>

(* lines 211-248: doc.saveas and the summary. *)
MdSave ==
    /\ mergedxf.pc = "layers"
    /\ mergedxf.j = Len(mergedxf.datasets)
    /\ LET st0 == [mergedxf EXCEPT !.progress = @ \o <<95>>] IN
       \E save_ok \in BOOLEAN :
         mergedxf' =
           IF save_ok
           THEN [st0 EXCEPT !.pc = "returned", !.dxf_saved = TRUE,
                            !.progress = @ \o <<100>>]
           ELSE MdRaiseInProcess(st0, "OSError")
    /\ UNCHANGED <<conversions, mergekml, heatmap, monitor, call>>

InitMergeDxf ==
    /\ \E files \in SeqsUpTo(MdTables, MaxFiles), a \in MdArgs :
         \E paths \in MdPathLists(files) : mergedxf = MdInitState(files, paths, a)
    /\ ConversionsIdle
    /\ mergekml = Idle
    /\ heatmap = Idle
    /\ monitor = Idle
    /\ call = Idle

NextMergeDxf ==
    \/ MdValidate
    \/ MdSetup
    \/ MdReadFile
    \/ MdBounds
    \/ MdAddLayer
    \/ MdSave

SpecMergeDxf == InitMergeDxf /\ [][NextMergeDxf]_vars

(***************************************************************************)
(*                        Properties of the DXF merge                      *)
(***************************************************************************)
MdFinished == mergedxf.pc \in {"returned", "raised"}

(* Every file exists, parses and carries the three columns. *)
MdValidFiles ==
    /\ mergedxf.files # <<>>
    /\ \A n \in 1..Len(mergedxf.files) :
         /\ mergedxf.files[n].exists
         /\ mergedxf.files[n].parsed
         /\ MdColumns \subseteq mergedxf.files[n].columns

RECURSIVE SumLen(_)
SumLen(ss) == IF ss = <<>> THEN 0 ELSE Len(Head(ss)) + SumLen(Tail(ss))

MdTotalRows == SumLen([n \in 1..Len(mergedxf.files) |-> mergedxf.files[n].rows])

MdCornerAtZero ==
    /\ \A n \in 1..Len(mergedxf.emitted) :
         /\ mergedxf.emitted[n].x >= 0
         /\ mergedxf.emitted[n].y >= 0
         /\ mergedxf.emitted[n].z >= 0
    /\ \E n \in 1..Len(mergedxf.emitted) : mergedxf.emitted[n].x = 0
    /\ \E n \in 1..Len(mergedxf.emitted) : mergedxf.emitted[n].y = 0
    /\ \E n \in 1..Len(mergedxf.emitted) : mergedxf.emitted[n].z = 0

(* C13 as stated: after merge_csv_to_dxf over any list of valid CSV files *)
(* holding at least one row in total, every emitted POINT has x, y and z  *)
(* >= 0 and on each axis some emitted point is exactly 0.                  *)
C13_GlobalCornerAnyValidFiles ==
    (MdFinished /\ MdValidFiles /\ MdTotalRows >= 1) => MdCornerAtZero

(* No two files of the list have the same base name. *)
MdDistinctStems ==
    \A m, n \in 1..Len(mergedxf.paths) :
        m # n => mergedxf.paths[m].stem # mergedxf.paths[n].stem

(* What does hold: the same, for a list of valid CSV files of different   *)
(* base names whose first file holds at least one row; a first file       *)
(* without rows is refused with ProcessingError and nothing is emitted.    *)
C13_GlobalCornerFirstFileHasRows ==
    /\ (/\ MdFinished /\ MdValidFiles /\ MdDistinctStems
        /\ Len(mergedxf.files[1].rows) >= 1)
          => /\ MdCornerAtZero
             /\ Len(mergedxf.emitted) = MdTotalRows
    /\ (MdFinished /\ MdValidFiles /\ Len(mergedxf.files[1].rows) = 0)
          => /\ mergedxf.error = "ProcessingError"
             /\ mergedxf.emitted = <<>>

(* A finished merge of two files where the zero of x comes from one file  *)
(* and the zero of z from the other.                                       *)
MdTwoFilesMerged ==
    /\ mergedxf.pc = "returned"
    /\ MdDistinctStems
    /\ Len(mergedxf.files) = 2
    /\ Len(mergedxf.emitted) = 3
    /\ \E n \in 1..3 : mergedxf.emitted[n].layer = 1 /\ mergedxf.emitted[n].x = 0
    /\ \E n \in 1..3 : mergedxf.emitted[n].layer = 2 /\ mergedxf.emitted[n].z = 0
    /\ \A n \in 1..3 : mergedxf.emitted[n].layer = 1 => mergedxf.emitted[n].z > 0

(* C26: merge_csv_to_dxf gives each input file its own layer: the layer   *)
(* names of different positions of the list are pairwise distinct, also   *)
(* for files of the same base name in different directories and for a     *)
(* path given twice, and position i has color color_list[i mod 13].        *)
C26_OneLayerPerFile ==
    mergedxf.pc # "idle" =>
        \A m, n \in 1..Len(mergedxf.layers) :
            /\ m # n => mergedxf.layers[m].name # mergedxf.layers[n].name
            /\ mergedxf.layers[n].color = ColorList[((n - 1) % 13) + 1]

(* What does hold: the merge of valid files, the first with a row.        *)
(* returns exactly when the base names differ, and fails on the layer     *)
(* table otherwise.                                                        *)
MdSameStemRefused ==
    (MdFinished /\ MdValidFiles /\ Len(mergedxf.files[1].rows) >= 1)
        => IF MdDistinctStems
           THEN mergedxf.pc = "returned" \/ mergedxf.raised_in_process = "OSError"
           ELSE mergedxf.raised_in_process = "DXFTableEntryError"

(***************************************************************************)
(*        core/combined_kml.py : several CSV files -> one KML              *)
(***************************************************************************)
MkArgs == [elevation_units : {"meters", "feet"}, add_labels : BOOLEAN]

MkInitState(files, args) ==
    [pc |-> "call", files |-> files, args |-> args, idx |-> 0, folders |-> <<>>,
     total_points |-> 0, file_exists |-> FALSE, error |-> NoError, progress |-> <<>>]

(* merge_csv_to_kml, lines 67-105: the empty list is refused, the         *)
(* document and one style per file are built.                              *)
MkCall ==
    /\ mergekml.pc = "call"
    /\ mergekml' =
         IF mergekml.files = <<>>
         THEN [mergekml EXCEPT !.pc = "raised", !.error = "ProcessingError"]
         ELSE [mergekml EXCEPT !.pc = "loop"]
    /\ UNCHANGED <<conversions, mergedxf, heatmap, monitor, call>>

(* lines 167-172: the elevation of the coordinate tuple, in meters. *)
MkElevation(elev, elevation_units) ==
    IF elevation_units = "feet" THEN Scale(elev, FT_TO_M) ELSE elev

(* lines 107-180: one file becomes one folder; every failure inside is    *)
(* re-raised as ProcessingError.                                           *)
MkProcessFile ==
    /\ mergekml.pc = "loop"
    /\ mergekml.idx < Len(mergekml.files)
    /\ LET st0 == [mergekml EXCEPT
                     !.progress = @ \o <<StagePercent(0, mergekml.idx,
                                                      Len(mergekml.files), 90)>>]
           df == mergekml.files[mergekml.idx + 1]
           folder == [n \in 1..Len(df.rows) |->
                        [name |-> IF mergekml.args.add_labels THEN n ELSE 0,
                         style |-> mergekml.idx,
                         lon |-> df.rows[n].lon, lat |-> df.rows[n].lat,
                         elev |-> MkElevation(df.rows[n].elev,
                                              mergekml.args.elevation_units)]]
       IN  mergekml' =
             IF ~df.exists \/ ~df.parsed \/ ~(MdColumns \subseteq df.columns)
             THEN [st0 EXCEPT !.pc = "raised", !.error = "ProcessingError"]
             ELSE [st0 EXCEPT !.idx = @ + 1, !.folders = Append(@, folder),
                              !.total_points = @ + Len(df.rows)]
    /\ UNCHANGED <<conversions, mergedxf, heatmap, monitor, call>>

(* lines 181-206: serialise and write. *)
MkWrite ==
    /\ mergekml.pc = "loop"
    /\ mergekml.idx = Len(mergekml.files)
    /\ LET st0 == [mergekml EXCEPT !.progress = @ \o <<95>>] IN
       \E write_ok \in BOOLEAN :
         mergekml' =
           IF write_ok
           THEN [st0 EXCEPT !.pc = "returned", !.file_exists = TRUE]
           ELSE [st0 EXCEPT !.pc = "raised", !.error = "ProcessingError"]
    /\ UNCHANGED <<conversions, mergedxf, heatmap, monitor, call>>

InitMergeKml ==
    /\ \E files \in SeqsUpTo(MdTables, MaxFiles), a \in MkArgs :
         mergekml = MkInitState(files, a)
    /\ ConversionsIdle
    /\ mergedxf = Idle
    /\ heatmap = Idle
    /\ monitor = Idle
    /\ call = Idle

NextMergeKml ==
    \/ MkCall
    \/ MkProcessFile
    \/ MkWrite

SpecMergeKml == InitMergeKml /\ [][NextMergeKml]_vars

(***************************************************************************)
(*        core/slope_heatmap.py and commands/slope_heatmap.py              *)
(***************************************************************************)

(* Samples per axis of the interpolation grid in the explored runs. *)
GridResolution == 6

HmPt(dx, dy, elev) == [lon |-> -990000 + dx, lat |-> 450000 + dy, elev |-> elev]

(* The point lists of the explored KML files: none, two points, three on  *)
(* a line, a wide triangle, a sliver, a half-box triangle, a full box.     *)
HmPointLists ==
    { <<>>,
      <<HmPt(0, 0, 0), HmPt(5, 5, 50000)>>,
      <<HmPt(0, 0, 0), HmPt(2, 2, 50000), HmPt(5, 5, 100000)>>,
      <<HmPt(0, 0, 0), HmPt(5, 1, 50000), HmPt(1, 5, 100000)>>,
      <<HmPt(0, 0, 0), HmPt(5, 5, 50000), HmPt(4, 5, 100000)>>,
      <<HmPt(0, 0, 0), HmPt(5, 0, 50000), HmPt(5, 5, 100000)>>,
      <<HmPt(0, 0, 0), HmPt(5, 0, 50000), HmPt(0, 5, 50000), HmPt(5, 5, 100000)>> }

(* What _extract_points meets in the input file: text that is not XML, a  *)
(* coordinate field that float() refuses, or the list of triples.          *)
HmKmlFiles ==
    { [wellformed |-> FALSE, numeric |-> TRUE, points |-> <<>>],
      [wellformed |-> TRUE, numeric |-> FALSE, points |-> <<>>] } \cup
    { [wellformed |-> TRUE, numeric |-> TRUE, points |-> pts] : pts \in HmPointLists }

HmArgs ==
    [exists : BOOLEAN, elevation_units : {"meters", "feet"},
     grid_resolution : {1, GridResolution}]

HmInitState(caller, args, kml) ==
    [pc |-> "call", caller |-> caller, args |-> args, kml |-> kml,
     method |-> "none", chain_defined |-> {}, elevation_defined |-> {},
     zi |-> <<>>, elevation_grid |-> <<>>, mask_closed |-> {},
     mask |-> {}, png_exists |-> FALSE, error |-> NoError, progress |-> <<>>,
     exit_code |-> -1]

HmRaise(st, kind) == [st EXCEPT !.pc = "raised", !.error = kind]

(* generate_slope_heatmap, lines 366-371. *)
HmValidate ==
    /\ heatmap.pc = "call"
    /\ heatmap.caller = "api"
    /\ heatmap' =
         IF ~heatmap.args.exists
         THEN HmRaise(heatmap, "FileFormatError")
         ELSE [heatmap EXCEPT !.pc = "extract"]
    /\ UNCHANGED <<conversions, mergedxf, mergekml, monitor, call>>

(* lines 373-385 with _extract_points (443-463): every failure while      *)
(* reading is re-raised as ProcessingError; so is an empty list.           *)
HmExtract ==
    /\ heatmap.pc = "extract"
    /\ LET st0 == [heatmap EXCEPT !.progress = @ \o <<10>>] IN
       heatmap' =
         IF \/ ~heatmap.kml.wellformed
            \/ ~heatmap.kml.numeric
            \/ heatmap.kml.points = <<>>
         THEN HmRaise(st0, "ProcessingError")
         ELSE [st0 EXCEPT !.pc = "interpolate", !.progress = @ \o <<30>>]
    /\ UNCHANGED <<conversions, mergedxf, mergekml, monitor, call>>

(* Projected positions in units of 8 m of easting and 11 m of northing    *)
(* (the tests below are unchanged by a positive scaling of either axis).   *)
HmXY(p) ==
    LET xy == Transform(p.lon, p.lat) IN <<xy[1] \div 80000, xy[2] \div 110000>>

HmCells(n) == (0..(n - 1)) \X (0..(n - 1))

(* np.linspace(lo, hi, n) has the steps (hi - lo) / (n - 1), and the      *)
(* single sample lo when n = 1; positions are kept times this divisor.     *)
HmDivisor(n) == IF n > 1 THEN n - 1 ELSE 1

(* lines 97-98 and 112-114: the position of the grid node c. *)
HmNode(pts, n, c) ==
    LET xs == [i \in 1..Len(pts) |-> HmXY(pts[i])[1]]
        ys == [i \in 1..Len(pts) |-> HmXY(pts[i])[2]]
    IN  <<HmDivisor(n) * SeqMin(xs) + c[1] * (SeqMax(xs) - SeqMin(xs)),
          HmDivisor(n) * SeqMin(ys) + c[2] * (SeqMax(ys) - SeqMin(ys))>>

HmSite(pts, n, i) == <<HmDivisor(n) * HmXY(pts[i])[1], HmDivisor(n) * HmXY(pts[i])[2]>>

HmOrient(a, b, c) == (b[1] - a[1]) * (c[2] - a[2]) - (b[2] - a[2]) * (c[1] - a[1])

HmInTriangle(q, a, b, c) ==
    LET d == <<HmOrient(a, b, q), HmOrient(b, c, q), HmOrient(c, a, q)>> IN
    ~((\E i \in 1..3 : d[i] < 0) /\ (\E i \in 1..3 : d[i] > 0))

(* The node lies in the convex hull of the points, that is, in some       *)
(* triangle of the triangulation.                                          *)
HmInHull(pts, n, c) ==
    \E i, j, k \in 1..Len(pts) :
        /\ i < j /\ j < k
        /\ HmOrient(HmSite(pts, n, i), HmSite(pts, n, j), HmSite(pts, n, k)) # 0
        /\ HmInTriangle(HmNode(pts, n, c), HmSite(pts, n, i), HmSite(pts, n, j),
                        HmSite(pts, n, k))

HmCollinear(pts, n) ==
    \A i, j, k \in 1..Len(pts) :
        HmOrient(HmSite(pts, n, i), HmSite(pts, n, j), HmSite(pts, n, k)) = 0

(* scipy.interpolate.griddata: 'cubic' and 'linear' triangulate the       *)
(* points (an error when they lie on one line) and give NaN outside the   *)
(* convex hull; 'nearest' gives a value at every node.                     *)
Griddata(pts, n, method) ==
    IF method = "nearest"
    THEN [ok |-> TRUE, defined |-> HmCells(n)]
    ELSE IF HmCollinear(pts, n)
    THEN [ok |-> FALSE, defined |-> {}]
    ELSE [ok |-> TRUE, defined |-> {c \in HmCells(n) : HmInHull(pts, n, c)}]

(* np.sum(np.isnan(Zi)) / Zi.size > num / den *)
NanRatioAbove(res, n, num, den) ==
    den * (n * n - Cardinality(res.defined)) > num * (n * n)

FallbackMethodNoNearest(pts, n) ==
    IF Griddata(pts, n, "cubic").ok /\ ~NanRatioAbove(Griddata(pts, n, "cubic"), n, 5, 10)
    THEN "cubic"
    ELSE IF Griddata(pts, n, "linear").ok
    THEN "linear"
    ELSE "nearest"

(* lines 116-136: the interpolation that ends up filling Zi. *)
FallbackMethod(pts, n) ==
    IF Griddata(pts, n, "cubic").ok /\ ~NanRatioAbove(Griddata(pts, n, "cubic"), n, 5, 10)
    THEN "cubic"
    ELSE IF Griddata(pts, n, "linear").ok
            /\ ~NanRatioAbove(Griddata(pts, n, "linear"), n, 8, 10)
    THEN "linear"
    ELSE "nearest"

(* compute_slope_from_points, lines 61-136. *)
HmInterpolate ==
    /\ heatmap.pc = "interpolate"
    /\ LET pts == heatmap.kml.points
           n == heatmap.args.grid_resolution
           method == FallbackMethod(pts, n)
       IN  heatmap' =
             IF Len(pts) < 3
             THEN HmRaise(heatmap, "ProcessingError")
             ELSE [heatmap EXCEPT !.pc = "close", !.method = method,
                                  !.chain_defined = Griddata(pts, n, method).defined,
                                  !.zi = [c \in HmCells(n) |->
                                            IF c \in Griddata(pts, n, method).defined
                                            THEN method ELSE "nan"]]
    /\ UNCHANGED <<conversions, mergedxf, mergekml, monitor, call>>

(* scipy.ndimage binary dilation and erosion with the 3x3 structure,      *)
(* repeated `iterations` times, border_value 0: a dilation reaches the    *)
(* nodes within `iterations` steps of a set node, an erosion keeps the    *)
(* nodes whose neighbours within `iterations` steps are all set, nodes    *)
(* beyond the border counting as unset.                                    *)
Dilate(m, n, iterations) ==
    {c \in HmCells(n) :
        \E d \in m : /\ d[1] \in (c[1] - iterations)..(c[1] + iterations)
                     /\ d[2] \in (c[2] - iterations)..(c[2] + iterations)}

Erode(m, n, iterations) ==
    {c \in HmCells(n) :
        \A d1 \in (c[1] - iterations)..(c[1] + iterations),
           d2 \in (c[2] - iterations)..(c[2] + iterations) : <<d1, d2>> \in m}

(* binary_closing(mask, structure, iterations=2) *)
BinaryClosing(m, n) == Erode(Dilate(m, n, 2), n, 2)

FillHolesOverwriting(zi, mask, mask_closed) ==
    [c \in DOMAIN zi |-> IF c \in mask_closed THEN "filled" ELSE zi[c]]

(* lines 150-154: Zi[holes_filled] = Zi_filled.  A cell holds the name of *)
(* the interpolation that gave its value, "filled" for a filled hole, or  *)
(* "nan".                                                                  *)
FillHoles(zi, mask, mask_closed) ==
    [c \in DOMAIN zi |-> IF c \in mask_closed \ mask THEN "filled" ELSE zi[c]]

(* lines 138-198: close the holes of the mask, fill them, then the slope  *)
(* from the grid spacing xi[1] - xi[0].                                    *)
HmCloseHoles ==
    /\ heatmap.pc = "close"
    /\ LET n == heatmap.args.grid_resolution
           mask == heatmap.chain_defined
           mask_closed == BinaryClosing(mask, n)
           holes_filled == mask_closed \ mask
           grid == FillHoles(heatmap.zi, mask, mask_closed)
           st0 == [heatmap EXCEPT
                     !.elevation_grid = grid,
                     !.mask_closed = mask_closed,
                     !.elevation_defined = {c \in HmCells(n) : grid[c] # "nan"},
                     !.mask = IF holes_filled # {} THEN mask_closed ELSE mask]
       IN  heatmap' =
             IF n < 2
             THEN HmRaise(st0, "IndexError")
             ELSE [st0 EXCEPT !.pc = "render", !.progress = @ \o <<80>>]
    /\ UNCHANGED <<conversions, mergedxf, mergekml, monitor, call>>

(* lines 397-429 with render_slope_heatmap (fig.savefig at line 323). *)
HmRender ==
    /\ heatmap.pc = "render"
    /\ \E save_ok \in BOOLEAN :
         heatmap' =
           IF save_ok
           THEN [heatmap EXCEPT !.pc = "returned", !.png_exists = TRUE,
                                !.progress = @ \o <<95, 100>>]
           ELSE HmRaise(heatmap, "OSError")
    /\ UNCHANGED <<conversions, mergedxf, mergekml, monitor, call>>

(* The registered slope-heatmap command: click refuses an input path that *)
(* does not exist (exit 2); otherwise the body echoes its parameters and  *)
(* a note, and returns.                                                    *)
CmdSlopeHeatmap ==
    /\ heatmap.pc = "call"
    /\ heatmap.caller = "cli"
    /\ heatmap' =
         IF ~heatmap.args.exists
         THEN [heatmap EXCEPT !.pc = "exited", !.exit_code = 2]
         ELSE [heatmap EXCEPT !.pc = "exited", !.exit_code = 0]
    /\ UNCHANGED <<conversions, mergedxf, mergekml, monitor, call>>

InitHeatmap ==
    /\ \E c \in {"api", "cli"}, a \in HmArgs, k \in HmKmlFiles :
         heatmap = HmInitState(c, a, k)
    /\ ConversionsIdle
    /\ mergedxf = Idle
    /\ mergekml = Idle
    /\ monitor = Idle
    /\ call = Idle

NextHeatmap ==
    \/ HmValidate
    \/ HmExtract
    \/ HmInterpolate
    \/ HmCloseHoles
    \/ HmRender
    \/ CmdSlopeHeatmap

SpecHeatmap == InitHeatmap /\ [][NextHeatmap]_vars

(***************************************************************************)
(*                 Interpolation fallback (slope heatmap)                  *)
(***************************************************************************)
HmChainDone == heatmap.pc # "idle" /\ heatmap.method # "none"

HmGridReturned == HmChainDone /\ heatmap.pc \in {"render", "returned"}

HmAllCells == HmCells(heatmap.args.grid_resolution)

CubicOverHalfUndefined ==
    LET cubic == Griddata(heatmap.kml.points, heatmap.args.grid_resolution, "cubic")
    IN  cubic.ok /\ NanRatioAbove(cubic, heatmap.args.grid_resolution, 5, 10)

LinearOverFourFifthsUndefined ==
    LET linear == Griddata(heatmap.kml.points, heatmap.args.grid_resolution, "linear")
    IN  ~linear.ok \/ NanRatioAbove(linear, heatmap.args.grid_resolution, 8, 10)

(* C15 as stated: whenever the cubic fit leaves more than half of the     *)
(* grid undefined, the elevation grid has no undefined cell once the      *)
(* fallback chain has completed.                                           *)
C15_NoUndefinedCellAfterFallback ==
    (HmChainDone /\ CubicOverHalfUndefined)
        => /\ heatmap.chain_defined = HmAllCells
           /\ HmGridReturned => heatmap.elevation_defined = HmAllCells

(* C15 amended: when the cubic fit leaves more than half of the grid      *)
(* undefined, the chain ends with nearest-neighbour and a fully defined   *)
(* grid exactly when the linear fit leaves more than 80% undefined;       *)
(* otherwise the linear grid is kept, between 50% and 80% of it stays     *)
(* undefined after the chain, and the returned grid still has undefined   *)
(* cells after the holes of the mask are filled.                           *)
C15_NoUndefinedCellOnlyAfterNearest ==
    (HmChainDone /\ CubicOverHalfUndefined)
        => /\ heatmap.method =
                IF LinearOverFourFifthsUndefined THEN "nearest" ELSE "linear"
           /\ heatmap.method = "nearest" =>
                /\ heatmap.chain_defined = HmAllCells
                /\ HmGridReturned => heatmap.elevation_defined = HmAllCells
           /\ heatmap.method = "linear" =>
                /\ 2 * Cardinality(HmAllCells \ heatmap.chain_defined)
                      > Cardinality(HmAllCells)
                /\ 10 * Cardinality(HmAllCells \ heatmap.chain_defined)
                      <= 8 * Cardinality(HmAllCells)
                /\ HmGridReturned =>
                      /\ heatmap.chain_defined \subseteq heatmap.elevation_defined
                      /\ heatmap.elevation_defined # HmAllCells

(* Both outcomes occur: a run that kept the linear grid and returned it   *)
(* with undefined cells, the cubic fit having left over half undefined.    *)
C15_Witness ==
    /\ HmGridReturned
    /\ CubicOverHalfUndefined
    /\ heatmap.method = "linear"
    /\ heatmap.elevation_defined # HmAllCells

C15_WitnessNearest ==
    /\ HmGridReturned
    /\ CubicOverHalfUndefined
    /\ heatmap.method = "nearest"

(* C18: the slope-heatmap command, run on an existing input file, exits   *)
(* with code 0 and leaves the output PNG on disk.                          *)
C18_CommandWritesPng ==
    (heatmap.pc = "exited" /\ heatmap.caller = "cli" /\ heatmap.args.exists)
        => heatmap.exit_code = 0 /\ heatmap.png_exists

(***************************************************************************)
(*                 Progress reports of the core routines                   *)
(***************************************************************************)
InitProgress ==
    \/ InitCsvKml
    \/ InitContours
    \/ InitMesh
    \/ InitPoints
    \/ InitMergeDxf
    \/ InitMergeKml
    \/ InitHeatmap

NextProgress ==
    \/ NextCsvKml
    \/ NextContours
    \/ NextMesh
    \/ NextPoints
    \/ NextMergeDxf
    \/ NextMergeKml
    \/ NextHeatmap

SpecProgress == InitProgress /\ [][NextProgress]_vars

PercentsInOrder(percents) ==
    /\ \A i \in 1..Len(percents) : percents[i] \in 0..100
    /\ \A i \in 1..(Len(percents) - 1) : percents[i] <= percents[i + 1]

ReportsInOrder(run) == run.pc # "idle" => PercentsInOrder(run.progress)

(* C14: in every run of generate_contours, generate_mesh, extract_points, *)
(* convert_csv_to_kml, merge_csv_to_dxf, merge_csv_to_kml and             *)
(* generate_slope_heatmap, every reported percent is an integer between   *)
(* 0 and 100 and the percents of the run never decrease.                   *)
C14_PercentsBoundedAndNonDecreasing ==
    /\ ReportsInOrder(contours)
    /\ ReportsInOrder(mesh)
    /\ ReportsInOrder(points)
    /\ ReportsInOrder(csvkml)
    /\ ReportsInOrder(mergedxf)
    /\ ReportsInOrder(mergekml)
    /\ ReportsInOrder(heatmap)

(* A merge of two files that reported every stage: 0, one percent per     *)
(* file read, 60, 70, one percent per layer, 95 and 100.                   *)
C14_Witness ==
    /\ mergedxf.pc = "returned"
    /\ Len(mergedxf.files) = 2
    /\ Len(mergedxf.progress) = 9
    /\ mergedxf.progress[2] < mergedxf.progress[3]

(***************************************************************************)
(*            core/slope_heatmap.py : _parse_coordinates                   *)
(***************************************************************************)

(* Longest coordinate text explored, and its characters: a digit, the     *)
(* separator, a blank, a letter.                                           *)
MaxText == 7

TextChars == {"1", ",", " ", "x"}

Digits == {"0", "1", "2", "3", "4", "5", "6", "7", "8", "9"}

(* str.split(","): the fields between the commas; one field for a text    *)
(* without comma, the empty text included.                                 *)
RECURSIVE Split(_)
Split(s) ==
    IF \A i \in 1..Len(s) : s[i] # ","
    THEN <<s>>
    ELSE LET k == CHOOSE i \in 1..Len(s) :
                     s[i] = "," /\ \A j \in 1..(i - 1) : s[j] # ","
         IN  <<SubSeq(s, 1, k - 1)>> \o Split(SubSeq(s, k + 1, Len(s)))

RECURSIVE DecimalValue(_)
DecimalValue(s) ==
    IF s = <<>> THEN 0
    ELSE 10 * DecimalValue(SubSeq(s, 1, Len(s) - 1))
           + (CHOOSE d \in 0..9 : ToString(d) = s[Len(s)])

(* float(text) on texts of these characters: blanks around the number are *)
(* dropped, what is left must be a non-empty run of digits.                *)
PyFloat(text) ==
    LET t == Strip(text) IN
    IF t # <<>> /\ \A i \in 1..Len(t) : t[i] \in Digits
    THEN [ok |-> TRUE, value |-> DecimalValue(t)]
    ELSE [ok |-> FALSE, value |-> 0]

ParseNone == [kind |-> "None"]

ParseValueError == [kind |-> "ValueError"]

ParsePoint(lon, lat, elev) == [kind |-> "point", lon |-> lon, lat |-> lat, elev |-> elev]

ParseCoordinatesElevAlways(coord_text) ==
    LET parts == Split(Strip(coord_text)) IN
    IF Len(parts) >= 2
    THEN IF ~PyFloat(parts[1]).ok \/ ~PyFloat(parts[2]).ok
         THEN ParseValueError
         ELSE IF Len(parts) >= 3
         THEN IF PyFloat(parts[3]).ok
              THEN ParsePoint(PyFloat(parts[1]).value, PyFloat(parts[2]).value,
                              PyFloat(parts[3]).value)
              ELSE ParseValueError
         ELSE ParsePoint(PyFloat(parts[1]).value, PyFloat(parts[2]).value, 0)
    ELSE ParseNone

(* lines 432-440 *)
ParseCoordinates(coord_text) ==
    LET parts == Split(Strip(coord_text)) IN
    IF Len(parts) >= 2
    THEN IF ~PyFloat(parts[1]).ok \/ ~PyFloat(parts[2]).ok
         THEN ParseValueError
         ELSE IF Len(parts) >= 3 /\ parts[3] # <<>>
         THEN IF PyFloat(parts[3]).ok
              THEN ParsePoint(PyFloat(parts[1]).value, PyFloat(parts[2]).value,
                              PyFloat(parts[3]).value)
              ELSE ParseValueError
         ELSE ParsePoint(PyFloat(parts[1]).value, PyFloat(parts[2]).value, 0)
    ELSE ParseNone

NoValue == [kind |-> "pending"]

InitParse ==
    /\ \E t \in SeqsUpTo(TextChars, MaxText) :
         call = [pc |-> "call", fn |-> "_parse_coordinates", text |-> t,
                 result |-> NoValue]
    /\ ConversionsIdle
    /\ mergedxf = Idle
    /\ mergekml = Idle
    /\ heatmap = Idle
    /\ monitor = Idle

CallParseCoordinates ==
    /\ call.pc = "call"
    /\ call.fn = "_parse_coordinates"
    /\ call' = [call EXCEPT !.pc = "done", !.result = ParseCoordinates(call.text)]
    /\ UNCHANGED <<conversions, mergedxf, mergekml, heatmap, monitor>>

NextParse == CallParseCoordinates

SpecParse == InitParse /\ [][NextParse]_vars

ParseDone == call.pc = "done" /\ call.fn = "_parse_coordinates"

(* The comma-separated fields of the text, blanks around the text aside. *)
Fields == Split(Strip(call.text))

Populated(field) == field # <<>>

Numeric(field) == PyFloat(field).ok

ElevOf(fields) ==
    IF Len(fields) >= 3 /\ Populated(fields[3]) THEN PyFloat(fields[3]).value ELSE 0

(* C16 as stated: fewer than two fields give None; a populated            *)
(* non-numeric field among the first three gives ValueError; every other  *)
(* text gives (lon, lat, elev) of the first three fields, elev 0 when the *)
(* third field is absent or empty.                                         *)
C16_ParseOnlyPopulatedFieldsRaise ==
    ParseDone =>
        call.result =
          IF Len(Fields) < 2 THEN ParseNone
          ELSE IF \E i \in 1..3 : i <= Len(Fields) /\ Populated(Fields[i])
                                   /\ ~Numeric(Fields[i])
          THEN ParseValueError
          ELSE ParsePoint(PyFloat(Fields[1]).value, PyFloat(Fields[2]).value,
                          ElevOf(Fields))

(* C16 amended: as above, and an empty longitude or latitude field gives  *)
(* ValueError as well; only the third field may be empty.                  *)
C16_ParseEmptyLonLatRaise ==
    ParseDone =>
        call.result =
          IF Len(Fields) < 2 THEN ParseNone
          ELSE IF \/ ~Numeric(Fields[1])
                  \/ ~Numeric(Fields[2])
                  \/ Len(Fields) >= 3 /\ Populated(Fields[3]) /\ ~Numeric(Fields[3])
          THEN ParseValueError
          ELSE ParsePoint(PyFloat(Fields[1]).value, PyFloat(Fields[2]).value,
                          ElevOf(Fields))

(* A text of four fields with an empty third one was parsed: the          *)
(* elevation is 0 and the fourth field, not a number, is ignored.          *)
C16_Witness ==
    /\ ParseDone
    /\ Len(Fields) = 4
    /\ Fields[3] = <<>>
    /\ ~Numeric(Fields[4])
    /\ call.result = ParsePoint(1, 11, 0)

(***************************************************************************)
(*      core/contours.py : the contour levels, in floating point          *)
(*                                                                         *)
(* A number is an integer count of units of 1/Unit and is representable   *)
(* when it has at most Precision significant bits; every operation gives  *)
(* the representable number nearest to the exact result, ties to even.    *)
(* ContourLevels above is the same computation for intervals and          *)
(* elevations on which no operation rounds.                                *)
(***************************************************************************)
Precision == 5

Unit == 32

(* Highest elevation explored, in whole feet. *)
MaxElevation == 4

RECURSIVE Pow2(_)
Pow2(n) == IF n = 0 THEN 1 ELSE 2 * Pow2(n - 1)

Abs(v) == IF v < 0 THEN -v ELSE v

(* The spacing of the representable numbers around a / b. *)
RECURSIVE Spacing(_, _, _)
Spacing(a, b, k) ==
    IF Abs(a) < Pow2(Precision) * Pow2(k) * b THEN Pow2(k) ELSE Spacing(a, b, k + 1)

(* The representable number nearest to a / b units. *)
RoundQ(a, b) ==
    LET sp == Spacing(a, b, 0) IN (RoundTo(a, b * sp) \div (b * sp)) * sp

IsFloat(v) == RoundQ(v, 1) = v

FAdd(x, y) == RoundQ(x + y, 1)

FSub(x, y) == RoundQ(x - y, 1)

FDiv(x, y) == RoundQ(x * Unit, y)

(* int * float: the integer converts exactly. *)
IntTimes(k, x) == RoundQ(k * x, 1)

(* math.floor and math.ceil give integers. *)
PyFloor(x) == x \div Unit

PyCeil(x) == -((-x) \div Unit)

ArangeLength(start, stop, step) == PyCeil(FDiv(FSub(stop, start), step))

(* np.arange(start, stop, step) on floats: ceil((stop - start) / step)    *)
(* values, start + i * delta with delta = (start + step) - start.          *)
Arange(start, stop, step) ==
    LET n == ArangeLength(start, stop, step)
        delta == FSub(FAdd(start, step), start)
    IN  [i \in 1..n |-> IF i = 1 THEN start ELSE FAdd(start, IntTimes(i - 1, delta))]

(* contours.py lines 250-251 *)
ContourStart(z_min, interval) == IntTimes(PyFloor(FDiv(z_min, interval)), interval)

ContourEnd(z_max, interval) == IntTimes(PyCeil(FDiv(z_max, interval)), interval)

(* line 252 *)
FloatContourLevels(z_min, z_max, interval) ==
    Arange(ContourStart(z_min, interval),
           FAdd(ContourEnd(z_max, interval), interval), interval)

Floats(lo, hi) == {v \in lo..hi : IsFloat(v)}

InitLevels ==
    /\ \E z_min \in Floats(0, MaxElevation * Unit),
          z_max \in Floats(0, MaxElevation * Unit),
          interval \in Floats(Unit \div 2, 2 * Unit) :
         /\ z_min <= z_max
         /\ call = [pc |-> "call", fn |-> "contour_levels", z_min |-> z_min,
                    z_max |-> z_max, interval |-> interval, result |-> <<>>]
    /\ ConversionsIdle
    /\ mergedxf = Idle
    /\ mergekml = Idle
    /\ heatmap = Idle
    /\ monitor = Idle

CallContourLevels ==
    /\ call.pc = "call"
    /\ call.fn = "contour_levels"
    /\ call' = [call EXCEPT !.pc = "done",
                            !.result = FloatContourLevels(call.z_min, call.z_max,
                                                          call.interval)]
    /\ UNCHANGED <<conversions, mergedxf, mergekml, heatmap, monitor>>

NextLevels == CallContourLevels

SpecLevels == InitLevels /\ [][NextLevels]_vars

LevelsDone == call.pc = "done" /\ call.fn = "contour_levels"

(* The closed sequence from index floor(z_min/interval) to index          *)
(* ceil(z_max/interval) has one member per index.                          *)
ClosedCount ==
    PyCeil(FDiv(call.z_max, call.interval)) - PyFloor(FDiv(call.z_min, call.interval)) + 1

(* Equal up to the rounding of one operation at the magnitude of b. *)
NearFloat(a, b) == Abs(a - b) <= Spacing(b, 1, 0)

(* C17: the levels are the closed arithmetic sequence from                *)
(* floor(z_min/interval)*interval to ceil(z_max/interval)*interval: the   *)
(* first level is at most z_min, the last is at least z_max and is the    *)
(* ceil bound with no level beyond it, consecutive levels are one         *)
(* interval apart (up to the rounding of the additions).                   *)
C17_LevelsAreClosedSequence ==
    LevelsDone =>
        LET levels == call.result
            n == Len(levels)
        IN  /\ n = ClosedCount
            /\ levels[1] <= call.z_min
            /\ levels[n] >= call.z_max
            /\ NearFloat(levels[n], ContourEnd(call.z_max, call.interval))
            /\ \A i \in 1..(n - 1) :
                 NearFloat(levels[i + 1] - levels[i], call.interval)

(* The part of C17 that fails: no level lies beyond the ceil bound. *)
C17_NoLevelBeyondCeilBound ==
    LevelsDone =>
        \A i \in 1..Len(call.result) :
            call.result[i] <= ContourEnd(call.z_max, call.interval)
                                + call.interval \div 2

(***************************************************************************)
(*                 tests/memory_utils.py : MemoryMonitor                   *)
(***************************************************************************)

(* Most sample(), _get_current_stats() and out-of-turn calls made on one  *)
(* monitor.                                                                *)
MaxSamples == 2

(* Most sessions (start_monitoring ... stop_monitoring) of one monitor. *)
MaxSessions == 2

(* Resident memory of a snapshot, in MB. *)
RssValues == 1..3

(* max_memory_mb: None, or a number of MB. *)
NoLimit == [given |-> FALSE, mb |-> 0]

MmLimits == {NoLimit, [given |-> TRUE, mb |-> 0], [given |-> TRUE, mb |-> 2]}

(* `self.max_memory_mb and rss > self.max_memory_mb`: None and 0 are      *)
(* both false.                                                             *)
MmOverLimit(limit, rss) == limit.given /\ limit.mb # 0 /\ rss > limit.mb

NoSnapshot == 0

(* The last method called on the monitor and how it ended. *)
MmCall(op, outcome) == [op |-> op, outcome |-> outcome]

(* __init__, lines 48-65.  `with` tells whether the sessions are run as   *)
(* context managers or by start_monitoring / stop_monitoring calls; taken *)
(* lists every snapshot of the current session.                            *)
MmInitState(limit, enable_sampling, with) ==
    [pc |-> "created", max_memory_mb |-> limit, enable_sampling |-> enable_sampling,
     with |-> with, monitoring |-> FALSE, initial |-> NoSnapshot,
     final |-> NoSnapshot, peak |-> NoSnapshot, samples |-> <<>>,
     taken |-> <<>>, calls |-> 0, sessions |-> 0, error |-> NoError,
     last |-> MmCall("__init__", "ok")]

MmUpdatePeakFirstOnly(peak, rss) == IF peak = NoSnapshot THEN rss ELSE peak

(* _update_peak, lines 80-83 *)
MmUpdatePeak(peak, rss) == IF peak = NoSnapshot \/ rss > peak THEN rss ELSE peak

(* start_monitoring (lines 92-102), called directly or by __enter__, on a *)
(* new monitor or after the end of a session: final_snapshot is kept, and *)
(* so is samples when sampling is disabled.                                *)
MmStart ==
    /\ monitor.pc \in {"created", "stopped", "exited"}
    /\ monitor.sessions < MaxSessions
    /\ \E rss \in RssValues :
         monitor' = [monitor EXCEPT
                       !.pc = "monitoring", !.monitoring = TRUE,
                       !.initial = rss, !.peak = rss,
                       !.samples = IF monitor.enable_sampling THEN <<rss>> ELSE @,
                       !.taken = <<rss>>, !.sessions = @ + 1,
                       !.last = MmCall("start_monitoring", "ok")]
    /\ UNCHANGED <<conversions, mergedxf, mergekml, heatmap, call>>

MmNoEffectResetting(st, op, outcome) ==
    [st EXCEPT !.calls = @ + 1, !.last = MmCall(op, outcome),
               !.peak = NoSnapshot, !.samples = <<>>]

(* A call that returns or raises at its first statement: lines 94-95,     *)
(* 106-107 and 141-142.                                                    *)
MmNoEffect(st, op, outcome) ==
    [st EXCEPT !.calls = @ + 1, !.last = MmCall(op, outcome)]

(* start_monitoring() while monitoring, lines 94-95. *)
MmStartWhileMonitoring ==
    /\ monitor.pc = "monitoring"
    /\ monitor.calls < MaxSamples
    /\ monitor' = MmNoEffect(monitor, "start_monitoring", "ignored")
    /\ UNCHANGED <<conversions, mergedxf, mergekml, heatmap, call>>

(* sample() or stop_monitoring() while not monitoring, lines 141-142 and  *)
(* 106-107.                                                                *)
MmCallNotStarted ==
    /\ monitor.pc \in {"created", "stopped", "exited"}
    /\ monitor.calls < MaxSamples
    /\ \E op \in {"sample", "stop_monitoring"} :
         monitor' = MmNoEffect(monitor, op, "RuntimeError")
    /\ UNCHANGED <<conversions, mergedxf, mergekml, heatmap, call>>

(* sample(), lines 139-150: the limit is checked before the snapshot is   *)
(* kept; inside a with block the exception goes to __exit__.               *)
MmSample ==
    /\ monitor.pc = "monitoring"
    /\ monitor.calls < MaxSamples
    /\ \E rss \in RssValues :
         LET st0 == [monitor EXCEPT !.calls = @ + 1, !.taken = Append(@, rss),
                                    !.peak = MmUpdatePeak(@, rss)]
         IN  monitor' =
               IF MmOverLimit(monitor.max_memory_mb, rss)
               THEN [st0 EXCEPT !.pc = IF monitor.with THEN "unwinding" ELSE "raised",
                                !.error = "MemoryError",
                                !.last = MmCall("sample", "MemoryError")]
               ELSE [st0 EXCEPT !.samples = IF monitor.enable_sampling
                                            THEN Append(@, rss) ELSE @,
                                !.last = MmCall("sample", "ok")]
    /\ UNCHANGED <<conversions, mergedxf, mergekml, heatmap, call>>

(* _get_current_stats(), lines 124-137: a snapshot without a check. *)
MmGetCurrentStats ==
    /\ monitor.pc = "monitoring"
    /\ monitor.calls < MaxSamples
    /\ \E rss \in RssValues :
         monitor' = [monitor EXCEPT !.calls = @ + 1, !.taken = Append(@, rss),
                                    !.peak = MmUpdatePeak(@, rss),
                                    !.last = MmCall("_get_current_stats", "ok")]
    /\ UNCHANGED <<conversions, mergedxf, mergekml, heatmap, call>>

(* stop_monitoring(), lines 104-122, on the record st. *)
MmStopped(st, rss) ==
    [st EXCEPT !.final = rss, !.peak = MmUpdatePeak(@, rss),
               !.samples = IF st.enable_sampling THEN Append(@, rss) ELSE @,
               !.taken = Append(@, rss), !.monitoring = FALSE,
               !.last = MmCall("stop_monitoring", "ok")]

(* stop_monitoring() called by the owner of the monitor. *)
MmStop ==
    /\ monitor.pc = "monitoring"
    /\ ~monitor.with
    /\ \E rss \in RssValues :
         monitor' = [MmStopped(monitor, rss) EXCEPT !.pc = "stopped"]
    /\ UNCHANGED <<conversions, mergedxf, mergekml, heatmap, call>>

(* __exit__, lines 156-167: stop, then the peak against the limit; an     *)
(* exception of the block is passed on otherwise.                          *)
MmExit ==
    /\ monitor.pc \in {"monitoring", "unwinding"}
    /\ monitor.with
    /\ \E rss \in RssValues :
         LET st0 == MmStopped(monitor, rss) IN
         monitor' =
           IF MmOverLimit(st0.max_memory_mb, st0.peak)
           THEN [st0 EXCEPT !.pc = "raised", !.error = "MemoryError",
                            !.last = MmCall("__exit__", "MemoryError")]
           ELSE [st0 EXCEPT !.pc = IF monitor.pc = "unwinding" THEN "raised" ELSE "exited"]
    /\ UNCHANGED <<conversions, mergedxf, mergekml, heatmap, call>>

InitMonitor ==
    /\ \E l \in MmLimits, e \in BOOLEAN, w \in BOOLEAN :
         monitor = MmInitState(l, e, w)
    /\ ConversionsIdle
    /\ mergedxf = Idle
    /\ mergekml = Idle
    /\ heatmap = Idle
    /\ call = Idle

NextMonitor ==
    \/ MmStart
    \/ MmStartWhileMonitoring
    \/ MmCallNotStarted
    \/ MmSample
    \/ MmGetCurrentStats
    \/ MmStop
    \/ MmExit

SpecMonitor == InitMonitor /\ [][NextMonitor]_vars

MmSessionOver == monitor.pc \in {"stopped", "exited", "raised"}

(* C19: a session of a monitor configured with max_memory_mb = L in which *)
(* some snapshot (the initial one, one of sample(), the final one) has    *)
(* resident memory above L ends with MemoryError.                          *)
C19_SnapshotOverLimitFails ==
    (/\ MmSessionOver
     /\ monitor.max_memory_mb.given
     /\ \E i \in 1..Len(monitor.taken) : monitor.taken[i] > monitor.max_memory_mb.mb)
        => monitor.error = "MemoryError"

(* What does hold: in a session run as a with block, with a positive      *)
(* limit, a snapshot above the limit ends the session with MemoryError.    *)
MmWithBlockEnforcesLimit ==
    (/\ MmSessionOver
     /\ monitor.with
     /\ monitor.max_memory_mb.given
     /\ monitor.max_memory_mb.mb > 0
     /\ \E i \in 1..Len(monitor.taken) : monitor.taken[i] > monitor.max_memory_mb.mb)
        => monitor.error = "MemoryError"

(***************************************************************************)
(*              core/contours.py : _split_path_on_jumps                    *)
(***************************************************************************)

(* Longest path explored. *)
MaxPath == 4

PathPoints == {<<0, 0>>, <<1, 0>>, <<3, 0>>, <<3, 4>>}

MaxGaps == {-1, 0, 1, 3}

(* math.hypot(x1 - x0, y1 - y0) <= max_gap, on the squares. *)
WithinGap(p, q, max_gap) ==
    /\ max_gap >= 0
    /\ (q[1] - p[1]) * (q[1] - p[1]) + (q[2] - p[2]) * (q[2] - p[2]) <= max_gap * max_gap

(* lines 136-145: the loop from index i on (indices from 1 here). *)
RECURSIVE SplitLoop(_, _, _, _, _)
SplitLoop(points2d, max_gap, i, subpaths, current) ==
    IF i > Len(points2d)
    THEN IF current # <<>> THEN Append(subpaths, current) ELSE subpaths
    ELSE IF WithinGap(points2d[i - 1], points2d[i], max_gap)
    THEN SplitLoop(points2d, max_gap, i + 1, subpaths, Append(current, points2d[i]))
    ELSE SplitLoop(points2d, max_gap, i + 1, Append(subpaths, current), <<points2d[i]>>)

SplitPathOnJumpsNever(points2d, max_gap) == <<points2d>>

(* lines 127-150 *)
SplitPathOnJumps(points2d, max_gap) ==
    IF Len(points2d) < 2
    THEN <<points2d>>
    ELSE SplitLoop(points2d, max_gap, 2, <<>>, <<points2d[1]>>)

InitSplit ==
    /\ \E path \in SeqsUpTo(PathPoints, MaxPath), g \in MaxGaps :
         call = [pc |-> "call", fn |-> "_split_path_on_jumps", points2d |-> path,
                 max_gap |-> g, result |-> <<>>]
    /\ ConversionsIdle
    /\ mergedxf = Idle
    /\ mergekml = Idle
    /\ heatmap = Idle
    /\ monitor = Idle

CallSplitPathOnJumps ==
    /\ call.pc = "call"
    /\ call.fn = "_split_path_on_jumps"
    /\ call' = [call EXCEPT !.pc = "done",
                            !.result = SplitPathOnJumps(call.points2d, call.max_gap)]
    /\ UNCHANGED <<conversions, mergedxf, mergekml, heatmap, monitor>>

NextSplit == CallSplitPathOnJumps

SpecSplit == InitSplit /\ [][NextSplit]_vars

SplitDone == call.pc = "done" /\ call.fn = "_split_path_on_jumps"

RECURSIVE Concat(_)
Concat(ss) == IF ss = <<>> THEN <<>> ELSE Head(ss) \o Concat(Tail(ss))

(* C20: the sub-paths, concatenated in order, are the input path; inside  *)
(* a sub-path consecutive points are within max_gap; the last point of a  *)
(* sub-path and the first of the next are further apart than max_gap; a   *)
(* non-empty path gives no empty sub-path.                                 *)
C20_SplitPartitionsPath ==
    SplitDone =>
        LET subpaths == call.result IN
        /\ Concat(subpaths) = call.points2d
        /\ \A k \in 1..Len(subpaths) :
             \A i \in 1..(Len(subpaths[k]) - 1) :
                 WithinGap(subpaths[k][i], subpaths[k][i + 1], call.max_gap)
        /\ call.points2d # <<>> => \A k \in 1..Len(subpaths) : subpaths[k] # <<>>
        /\ \A k \in 1..(Len(subpaths) - 1) :
             /\ subpaths[k] # <<>>
             /\ subpaths[k + 1] # <<>>
             /\ ~WithinGap(subpaths[k][Len(subpaths[k])], subpaths[k + 1][1],
                           call.max_gap)

(* A path of four points cut once in the middle. *)
C20_Witness ==
    /\ SplitDone
    /\ Len(call.points2d) = 4
    /\ Len(call.result) = 2
    /\ Len(call.result[1]) = 2
    /\ Len(call.result[2]) = 2

(***************************************************************************)
(*        core/mesh.py : faces and wireframe of _create_mesh_dxf           *)
(***************************************************************************)

(* Most triangles of an explored triangulation, over four vertices. *)
MaxFaces == 2

VertexIds == 0..3

Simplices == {t \in VertexIds \X VertexIds \X VertexIds :
                 t[1] # t[2] /\ t[2] # t[3] /\ t[1] # t[3]}

(* lines 168-198: the loop over tri.simplices, from index k on. *)
RECURSIVE CollectFaces(_, _, _, _, _)
CollectFaces(simplices, add_wireframe, k, faces, edge_set) ==
    IF k > Len(simplices)
    THEN [faces |-> faces, edge_set |-> edge_set]
    ELSE CollectFaces(simplices, add_wireframe, k + 1, Append(faces, simplices[k]),
                      IF add_wireframe
                      THEN edge_set \cup SimplexEdges(simplices[k]) ELSE edge_set)

(* lines 168-213: what is added to the modelspace and what is returned. *)
CreateMeshDxf(simplices, add_wireframe) ==
    LET c == CollectFaces(simplices, add_wireframe, 1, <<>>, {})
        lines == IF add_wireframe THEN SetToSeq(c.edge_set) ELSE <<>>
    IN  [faces |-> c.faces, lines |-> lines,
         face_count |-> Len(c.faces), edge_count |-> Len(lines)]

InitFaces ==
    /\ \E simplices \in SeqsUpTo(Simplices, MaxFaces), w \in BOOLEAN :
         call = [pc |-> "call", fn |-> "_create_mesh_dxf", simplices |-> simplices,
                 add_wireframe |-> w,
                 result |-> [faces |-> <<>>, lines |-> <<>>, face_count |-> 0,
                             edge_count |-> 0]]
    /\ ConversionsIdle
    /\ mergedxf = Idle
    /\ mergekml = Idle
    /\ heatmap = Idle
    /\ monitor = Idle

CallCreateMeshDxf ==
    /\ call.pc = "call"
    /\ call.fn = "_create_mesh_dxf"
    /\ call' = [call EXCEPT !.pc = "done",
                            !.result = CreateMeshDxf(call.simplices, call.add_wireframe)]
    /\ UNCHANGED <<conversions, mergedxf, mergekml, heatmap, monitor>>

NextFaces == CallCreateMeshDxf

SpecFaces == InitFaces /\ [][NextFaces]_vars

FacesDone == call.pc = "done" /\ call.fn = "_create_mesh_dxf"

(* The undirected edges of the triangles, as two-element sets. *)
UndirectedEdges(simplices) ==
    UNION {{{simplices[k][1], simplices[k][2]}, {simplices[k][2], simplices[k][3]},
            {simplices[k][3], simplices[k][1]}} : k \in 1..Len(simplices)}

(* C21: one 3DFACE per triangle; with wireframe one LINE per distinct     *)
(* undirected edge, each stored smaller index first, and the returned     *)
(* edge count is their number; without wireframe no LINE and count 0.      *)
C21_OneLinePerUndirectedEdge ==
    FacesDone =>
        LET res == call.result IN
        /\ res.faces = call.simplices
        /\ res.face_count = Len(call.simplices)
        /\ res.edge_count = Len(res.lines)
        /\ call.add_wireframe =>
             /\ \A n \in 1..Len(res.lines) : res.lines[n][1] <= res.lines[n][2]
             /\ \A n, o \in 1..Len(res.lines) :
                  n # o => {res.lines[n][1], res.lines[n][2]}
                             # {res.lines[o][1], res.lines[o][2]}
             /\ {{res.lines[n][1], res.lines[n][2]} : n \in 1..Len(res.lines)}
                  = UndirectedEdges(call.simplices)
             /\ res.edge_count = Cardinality(UndirectedEdges(call.simplices))
        /\ ~call.add_wireframe => res.lines = <<>> /\ res.edge_count = 0

(* Two triangles that share an edge, met in opposite orders: five lines. *)
C21_Witness ==
    /\ FacesDone
    /\ call.add_wireframe
    /\ call.simplices = << <<0, 1, 2>>, <<2, 1, 3>> >>
    /\ call.result.face_count = 2
    /\ call.result.edge_count = 5

(***************************************************************************)
(*                   Hole filling (slope heatmap)                          *)
(*                                                                         *)
(* The interpolation of the explored point sets is undefined exactly      *)
(* outside a convex hull, which the closing never bridges; the step is    *)
(* therefore also run on grids with any few cells undefined.               *)
(***************************************************************************)

(* Most undefined cells of such a grid. *)
MaxHoles == 2

RECURSIVE SubsetsUpTo(_, _)
SubsetsUpTo(S, k) ==
    IF k = 0 THEN {{}}
    ELSE SubsetsUpTo(S, k - 1) \cup {h \cup {c} : h \in SubsetsUpTo(S, k - 1), c \in S}

(* lines 138-155 on the grid zi of n x n cells. *)
CloseAndFill(zi, n) ==
    LET mask == {c \in HmCells(n) : zi[c] # "nan"}
        mask_closed == BinaryClosing(mask, n)
        holes_filled == mask_closed \ mask
    IN  [elevation_grid |-> FillHoles(zi, mask, mask_closed),
         mask_closed |-> mask_closed,
         mask |-> IF holes_filled # {} THEN mask_closed ELSE mask]

InitHoles ==
    /\ \E holes \in SubsetsUpTo(HmCells(GridResolution), MaxHoles) :
         call = [pc |-> "call", fn |-> "fill_holes", n |-> GridResolution,
                 zi |-> [c \in HmCells(GridResolution) |->
                           IF c \in holes THEN "nan" ELSE "cubic"],
                 result |-> [elevation_grid |-> <<>>, mask_closed |-> {}, mask |-> {}]]
    /\ ConversionsIdle
    /\ mergedxf = Idle
    /\ mergekml = Idle
    /\ heatmap = Idle
    /\ monitor = Idle

CallFillHoles ==
    /\ call.pc = "call"
    /\ call.fn = "fill_holes"
    /\ call' = [call EXCEPT !.pc = "done", !.result = CloseAndFill(call.zi, call.n)]
    /\ UNCHANGED <<conversions, mergedxf, mergekml, heatmap, monitor>>

NextHoles == CallFillHoles

SpecHoles == InitHoles /\ [][NextHoles]_vars

HolesDone == call.pc = "done" /\ call.fn = "fill_holes"

(* C22: filling the holes changes only cells that were undefined before   *)
(* the closing and are valid in the closed mask: a defined elevation is   *)
(* never overwritten and no cell outside the closed mask gets one.         *)
C22_FillChangesOnlyClosedHoles ==
    HolesDone =>
        \A c \in HmCells(call.n) :
            /\ call.zi[c] # "nan" => call.result.elevation_grid[c] = call.zi[c]
            /\ c \notin call.result.mask_closed
                 => call.result.elevation_grid[c] = call.zi[c]
            /\ call.result.elevation_grid[c] # call.zi[c] =>
                 /\ call.zi[c] = "nan"
                 /\ c \in call.result.mask_closed
                 /\ call.result.elevation_grid[c] = "filled"

(* A grid in which one hole was filled, a cell of the closed mask kept    *)
(* its value and a hole at the border stayed undefined.                    *)
C22_Witness ==
    /\ HolesDone
    /\ \E c \in HmCells(call.n) : call.result.elevation_grid[c] = "filled"
    /\ \E c \in call.result.mask_closed : call.result.elevation_grid[c] = "cubic"
    /\ \E c \in HmCells(call.n) : call.result.elevation_grid[c] = "nan"

(***************************************************************************)
(* The last progress report of a successful run                            *)
(***************************************************************************)

LastPercent(run) ==
    IF run.progress = <<>> THEN -1 ELSE run.progress[Len(run.progress)]

WithCallback(run) == run.pc # "idle" /\ run.caller = "api"

(* C23: every run of generate_contours, generate_mesh, extract_points,    *)
(* convert_csv_to_kml, merge_csv_to_dxf, merge_csv_to_kml and             *)
(* generate_slope_heatmap that is given a progress callback and returns   *)
(* normally has written its output file and made its last report at       *)
(* percent 100.                                                            *)
C23_SuccessEndsAtHundred ==
    /\ (WithCallback(contours) /\ contours.pc = "returned")
         => contours.dxf_saved /\ LastPercent(contours) = 100
    /\ (WithCallback(mesh) /\ mesh.pc = "returned")
         => mesh.dxf_saved /\ LastPercent(mesh) = 100
    /\ (WithCallback(points) /\ points.pc = "returned")
         => points.file_exists /\ LastPercent(points) = 100
    /\ (WithCallback(csvkml) /\ csvkml.pc = "returned")
         => csvkml.file_exists /\ LastPercent(csvkml) = 100
    /\ mergedxf.pc = "returned"
         => mergedxf.dxf_saved /\ LastPercent(mergedxf) = 100
    /\ mergekml.pc = "returned"
         => mergekml.file_exists /\ LastPercent(mergekml) = 100
    /\ heatmap.pc = "returned"
         => heatmap.png_exists /\ LastPercent(heatmap) = 100

(***************************************************************************)
(* UTM zone detection (slope heatmap)                                      *)
(*                                                                         *)
(* compute_slope_from_points, slope_heatmap.py:77-83.  Longitudes and      *)
(* latitudes are whole degrees; the mean is kept as the exact fraction     *)
(* sum / len.                                                              *)
(***************************************************************************)

MaxZonePoints == 2

LonValues == {-180, -175, -174, -7, -6, 0, 5, 6, 174, 179, 180}
LatValues == {-45, -1, 0, 45}

RECURSIVE SumOf(_, _)
SumOf(values, k) == IF k = 0 THEN 0 ELSE values[k] + SumOf(values, k - 1)

(* int(num / den) for den > 0: Python's int() truncates toward zero. *)
PyInt(num, den) == IF num >= 0 THEN num \div den ELSE -((-num) \div den)

DetectUtm(pts) ==
    LET n       == Len(pts)
        lon_sum == SumOf([i \in 1..n |-> pts[i].lon], n)
        lat_sum == SumOf([i \in 1..n |-> pts[i].lat], n)
        \* utm_zone = int((avg_lon + 180) / 6) + 1
        utm_zone == PyInt(lon_sum + 180 * n, 6 * n) + 1
        \* epsg_code = 32600 + utm_zone if avg_lat >= 0 else 32700 + utm_zone
        epsg_code == IF lat_sum >= 0 THEN 32600 + utm_zone ELSE 32700 + utm_zone
    IN [lon_sum |-> lon_sum, lat_sum |-> lat_sum, n |-> n,
        utm_zone |-> utm_zone, epsg_code |-> epsg_code]

ZoneInputs ==
    UNION {[1..n -> [lon : LonValues, lat : LatValues]] : n \in 1..MaxZonePoints}

InitZone ==
    /\ ConversionsIdle
    /\ mergedxf = Idle /\ mergekml = Idle /\ heatmap = Idle /\ monitor = Idle
    /\ \E pts \in ZoneInputs :
         call = [pc |-> "call", fn |-> "compute_slope_from_points",
                 points |-> pts, result |-> DetectUtm(<<[lon |-> 0, lat |-> 0]>>)]

CallDetectUtm ==
    /\ call.pc = "call"
    /\ call.fn = "compute_slope_from_points"
    /\ call' = [call EXCEPT !.pc = "done", !.result = DetectUtm(call.points)]
    /\ UNCHANGED <<conversions, mergedxf, mergekml, heatmap, monitor>>

NextZone == CallDetectUtm

SpecZone == InitZone /\ [][NextZone]_vars

MaxLevel == 2

LevelBounds == {h * 5000 : h \in (-2 * MaxLevel)..(2 * MaxLevel)}

LayerIntervals == {2500, 5000, 10000, 20000}

(* f"{level_value:.0f}": ties go to the even integer and the sign of a    *)
(* negative value is kept, so -0.5 prints as "-0".                         *)
FormatNoDecimals(level_value) ==
    [negative |-> level_value < 0,
     digits |-> RoundTo(IF level_value < 0 THEN -level_value ELSE level_value,
                        10000) \div 10000]

(* layer_name = f"ELEV_{level_value:.0f}FT" *)
LayerName(level_value) == [elev |-> FormatNoDecimals(level_value)]

(* lines 291-300: the layer of each level of cs.levels, in order. *)
ContourLayers(z_min, z_max, contour_interval) ==
    LET levels == ContourLevels(z_min, z_max, contour_interval)
    IN  [levels |-> levels,
         layer_names |-> [i \in 1..Len(levels) |-> LayerName(levels[i])]]

InitLayers ==
    /\ ConversionsIdle
    /\ mergedxf = Idle /\ mergekml = Idle /\ heatmap = Idle /\ monitor = Idle
    /\ \E z_min \in LevelBounds, z_max \in LevelBounds, interval \in LayerIntervals :
         /\ z_min <= z_max
         /\ call = [pc |-> "call", fn |-> "_process_contours", z_min |-> z_min,
                    z_max |-> z_max, contour_interval |-> interval,
                    result |-> [levels |-> <<>>, layer_names |-> <<>>]]

CallContourLayers ==
    /\ call.pc = "call"
    /\ call.fn = "_process_contours"
    /\ call' = [call EXCEPT !.pc = "done",
                  !.result = ContourLayers(call.z_min, call.z_max,
                                           call.contour_interval)]
    /\ UNCHANGED <<conversions, mergedxf, mergekml, heatmap, monitor>>

NextLayers == CallContourLayers

SpecLayers == InitLayers /\ [][NextLayers]_vars

LayersDone == call.pc = "done" /\ call.fn = "_process_contours"

(* C25: in the contour drawing, two different level values are never on   *)
(* the same ELEV_<level>FT layer, whatever the positive interval and the   *)
(* sign of the levels.                                                     *)
C25_DistinctLevelsDistinctLayers ==
    LayersDone =>
        \A i, j \in 1..Len(call.result.levels) :
            call.result.levels[i] # call.result.levels[j]
                => call.result.layer_names[i] # call.result.layer_names[j]

(* What does hold: with an interval of a whole number of feet, at least   *)
(* one, the layers of different levels differ.                             *)
WholeFeetLevelsDistinctLayers ==
    (LayersDone /\ call.contour_interval % 10000 = 0)
        => \A i, j \in 1..Len(call.result.levels) :
              call.result.levels[i] # call.result.levels[j]
                  => call.result.layer_names[i] # call.result.layer_names[j]

(***************************************************************************)
(* The grid cell of the contour run                                        *)
(***************************************************************************)

(* The run passed the validation of generate_contours and the             *)
(* interpolation, and has gone through the contouring step.                *)
CtContoured ==
    /\ contours.pc \in {"save", "returned", "raised"}
    /\ contours.caller = "api"
    /\ \E n \in 1..Len(contours.progress) : contours.progress[n] = 60

(* C27: every grid_resolution that passes the validation of               *)
(* generate_contours (an integer >= 1) gives a grid cell dx, dy and a     *)
(* jump threshold: the contouring step of an accepted run does not fail    *)
(* on the grid resolution.                                                 *)
C27_AcceptedResolutionGivesCell ==
    CtContoured => contours.cell.defined

(* What does hold: with a grid resolution of at least 2 the cell is       *)
(* computed, and a resolution of 1 ends the run with TypeError.            *)
CtCellFromTwoSamples ==
    CtContoured =>
        IF contours.args.grid_resolution >= 2
        THEN contours.cell.defined
        ELSE contours.pc = "raised" /\ contours.raised_in_process = "TypeError"

(***************************************************************************)
(* The coordinate ranges of the CSV -> KML summary                         *)
(***************************************************************************)

CkWrittenColumn(k) == [j \in 1..Len(CkPlacemarks) |-> CkPlacemarks[j].coordinates[k]]

(* C28: the latitude and longitude ranges that convert_csv_to_kml         *)
(* reports are the minimum and maximum over exactly the rows written as   *)
(* placemarks; a row skipped as out of range does not contribute.          *)
C28_RangesOverWrittenRows ==
    (csvkml.pc = "returned" /\ CkPlacemarks # <<>>)
        => /\ csvkml.summary[1].lat_range =
                <<SeqMin(CkWrittenColumn(2)), SeqMax(CkWrittenColumn(2))>>
           /\ csvkml.summary[1].lon_range =
                <<SeqMin(CkWrittenColumn(1)), SeqMax(CkWrittenColumn(1))>>

(* What does hold: the ranges are taken over every row read, and so agree *)
(* with the written rows when no row was skipped.                          *)
CkRangesOverAllRows ==
    csvkml.pc = "returned"
        => /\ csvkml.summary[1].lat_range =
                <<SeqMin(Column(csvkml.df.rows, "lat")),
                  SeqMax(Column(csvkml.df.rows, "lat"))>>
           /\ csvkml.summary[1].lon_range =
                <<SeqMin(Column(csvkml.df.rows, "lon")),
                  SeqMax(Column(csvkml.df.rows, "lon"))>>
           /\ (csvkml.warnings = 0 /\ CkPlacemarks # <<>>)
                => csvkml.summary[1].lat_range =
                     <<SeqMin(CkWrittenColumn(2)), SeqMax(CkWrittenColumn(2))>>

(***************************************************************************)
(* The peak of a monitoring session and the calls made out of turn         *)
(***************************************************************************)

(* The statistics of the session have been returned by stop_monitoring. *)
MmStatsReturned ==
    \/ monitor.pc \in {"stopped", "exited"}
    \/ monitor.pc = "raised" /\ ~monitor.monitoring

(* C29: the peak of a MemoryMonitor is at least every snapshot taken so   *)
(* far in the session, the one of a sample() that raised MemoryError and  *)
(* the final one included; returned statistics have peak >= initial and   *)
(* peak >= final; and a start_monitoring() after a stop sets the peak to  *)
(* the new initial snapshot.                                               *)
C29_PeakIsSessionMaximum ==
    monitor.pc \notin {"idle", "created"} =>
        /\ \A i \in 1..Len(monitor.taken) : monitor.peak >= monitor.taken[i]
        /\ monitor.peak >= monitor.initial
        /\ MmStatsReturned => monitor.peak >= monitor.final
        /\ monitor.last = MmCall("start_monitoring", "ok")
              => monitor.peak = monitor.initial /\ monitor.taken = <<monitor.initial>>

(* A second session whose first snapshot is below the last one of the     *)
(* first session, and whose peak was then raised by a snapshot.            *)
C29_Witness ==
    /\ monitor.pc = "monitoring"
    /\ monitor.sessions = 2
    /\ monitor.final = 3
    /\ monitor.taken = <<1, 2>>
    /\ monitor.peak = 2

MmKept ==
    /\ monitor'.initial = monitor.initial
    /\ monitor'.peak = monitor.peak
    /\ monitor'.final = monitor.final
    /\ monitor'.samples = monitor.samples
    /\ monitor'.monitoring = monitor.monitoring

MmOutOfTurnStep ==
    (monitor.pc # "idle" /\ monitor' # monitor) =>
        /\ (monitor'.last.op \in {"sample", "stop_monitoring"} /\ ~monitor.monitoring)
              => monitor'.last.outcome = "RuntimeError" /\ MmKept
        /\ (monitor'.last.op = "start_monitoring" /\ monitor.monitoring)
              => monitor'.last.outcome = "ignored" /\ MmKept

(* C30: sample() and stop_monitoring() on a monitor that is not           *)
(* monitoring raise RuntimeError and leave the initial, peak and final    *)
(* snapshots and the samples as they were; start_monitoring() on a        *)
(* monitor that is monitoring returns without replacing them.              *)
C30_OutOfTurnCallsHaveNoEffect == [][MmOutOfTurnStep]_vars

(* sample() was refused after a session that kept two samples. *)
C30_Witness ==
    /\ monitor.pc = "stopped"
    /\ monitor.last = MmCall("sample", "RuntimeError")
    /\ Len(monitor.samples) = 2
    /\ monitor.peak = 3
    /\ monitor.final = 1

====
